---- MODULE Spec2Model ----
(***************************************************************************)
(* A model of the league scheduler: the problem instance held by Layout,   *)
(* the hard-constraint checker, the soft-constraint evaluator, the         *)
(* expander SearchModel.div and the depth-first driver                     *)
(* ScheduleMaker.search over the AND-tree of Node objects.                 *)
(*                                                                         *)
(* Python strings that the program indexes or parses (time strings such as *)
(* "18:00", slot shortcuts such as "8:00-9:30", division strings) are      *)
(* sequences of one-character strings, so that split, int and [0] are      *)
(* computed as the program computes them.  Identifiers that are only       *)
(* compared (activity ids, association, age, tier) are plain strings.      *)
(***************************************************************************)
EXTENDS Integers, Sequences, FiniteSets, TLC

VARIABLES
  Layout,        \* the class Layout: the problem instance, as loaded
  pc,            \* where ScheduleMaker.search stands
  nodes,         \* the Node objects of the tree, by object identity 1, 2, ...
  stack,         \* ScheduleMaker.stack: node identities, top last
  current_best,  \* ScheduleMaker.current_best: a node identity or NoneNode
  node,          \* the node popped by the latest iteration of the loop
  result,        \* what search() returned, once pc = "done"
  fails,         \* the failure counters of HardConstraints
  leaves_encountered,  \* Layout.leaves_encountered
  best_log       \* the nodes current_best has held, oldest first

vars == <<Layout, pc, nodes, stack, current_best, node, result, fails,
          leaves_encountered, best_log>>

(***************************************************************************)
(* Enumerations.py                                                         *)
(***************************************************************************)
GAME == "GAME"

PRACTICE == "PRACTICE"

MO == "MO"

TU == "TU"

FR == "FR"

\* Python's None where a division may be missing: no character sequence
\* equals it, since "None" is not a single character.
None == <<"None">>

\* Python's None where a node reference may be missing (node identities
\* start at 1).
NoneNode == 0

EmptyMap == [x \in {} |-> x]

SeqToSet(s) == {s[i] : i \in 1..Len(s)}

(***************************************************************************)
(* Python string operations on character sequences                         *)
(***************************************************************************)
DigitValue(c) ==
  CASE c = "0" -> 0 [] c = "1" -> 1 [] c = "2" -> 2 [] c = "3" -> 3
    [] c = "4" -> 4 [] c = "5" -> 5 [] c = "6" -> 6 [] c = "7" -> 7
    [] c = "8" -> 8 [] c = "9" -> 9

\* int(s) for a string of decimal digits
RECURSIVE int(_)
int(s) ==
  IF Len(s) = 1 THEN DigitValue(s[1])
  ELSE 10 * int(SubSeq(s, 1, Len(s) - 1)) + DigitValue(s[Len(s)])

\* s.strip(): leading and trailing blanks removed
RECURSIVE strip(_)
strip(s) ==
  IF s = <<>> THEN s
  ELSE IF Head(s) = " " THEN strip(Tail(s))
  ELSE IF s[Len(s)] = " " THEN strip(SubSeq(s, 1, Len(s) - 1))
  ELSE s

\* s.split(sep) for a one-character separator: the sequence of the parts
RECURSIVE split(_, _)
split(s, sep) ==
  IF \A i \in 1..Len(s) : s[i] # sep THEN <<s>>
  ELSE LET k == CHOOSE i \in 1..Len(s) :
                  s[i] = sep /\ \A j \in 1..(i - 1) : s[j] # sep
       IN  <<SubSeq(s, 1, k - 1)>> \o split(SubSeq(s, k + 1, Len(s)), sep)

(***************************************************************************)
(* Layout.pre_parser_initialization: the fixed weekly grid                 *)
(***************************************************************************)
MO_GAME_SLOT_SHORTCUTS ==
  << <<"8",":","0","0","-","9",":","0","0">>,
     <<"9",":","0","0","-","1","0",":","0","0">>,
     <<"1","0",":","0","0","-","1","1",":","0","0">>,
     <<"1","1",":","0","0","-","1","2",":","0","0">>,
     <<"1","2",":","0","0","-","1","3",":","0","0">>,
     <<"1","3",":","0","0","-","1","4",":","0","0">>,
     <<"1","4",":","0","0","-","1","5",":","0","0">>,
     <<"1","5",":","0","0","-","1","6",":","0","0">>,
     <<"1","6",":","0","0","-","1","7",":","0","0">>,
     <<"1","7",":","0","0","-","1","8",":","0","0">>,
     <<"1","8",":","0","0","-","1","9",":","0","0">>,
     <<"1","9",":","0","0","-","2","0",":","0","0">>,
     <<"2","0",":","0","0","-","2","1",":","0","0">> >>

TU_GAME_SLOT_SHORTCUTS ==
  << <<"8",":","0","0","-","9",":","3","0">>,
     <<"9",":","3","0","-","1","1",":","0","0">>,
     <<"1","1",":","0","0","-","1","2",":","3","0">>,
     <<"1","2",":","3","0","-","1","4",":","0","0">>,
     <<"1","4",":","0","0","-","1","5",":","3","0">>,
     <<"1","5",":","3","0","-","1","7",":","0","0">>,
     <<"1","7",":","0","0","-","1","8",":","3","0">>,
     <<"1","8",":","3","0","-","2","0",":","0","0">> >>

MO_PRACTICE_SLOT_SHORTCUTS ==
  << <<"8",":","0","0","-","9",":","0","0">>,
     <<"9",":","0","0","-","1","0",":","0","0">>,
     <<"1","0",":","0","0","-","1","1",":","0","0">>,
     <<"1","1",":","0","0","-","1","2",":","0","0">>,
     <<"1","2",":","0","0","-","1","3",":","0","0">>,
     <<"1","3",":","0","0","-","1","4",":","0","0">>,
     <<"1","4",":","0","0","-","1","5",":","0","0">>,
     <<"1","5",":","0","0","-","1","6",":","0","0">>,
     <<"1","6",":","0","0","-","1","7",":","0","0">>,
     <<"1","7",":","0","0","-","1","8",":","0","0">>,
     <<"1","8",":","0","0","-","1","9",":","0","0">>,
     <<"1","9",":","0","0","-","2","0",":","0","0">>,
     <<"2","0",":","0","0","-","2","1",":","0","0">> >>

TU_PRACTICE_SLOT_SHORTCUTS ==
  << <<"8",":","0","0","-","9",":","0","0">>,
     <<"9",":","0","0","-","1","0",":","0","0">>,
     <<"1","0",":","0","0","-","1","1",":","0","0">>,
     <<"1","1",":","0","0","-","1","2",":","0","0">>,
     <<"1","2",":","0","0","-","1","3",":","0","0">>,
     <<"1","3",":","0","0","-","1","4",":","0","0">>,
     <<"1","4",":","0","0","-","1","5",":","0","0">>,
     <<"1","5",":","0","0","-","1","6",":","0","0">>,
     <<"1","6",":","0","0","-","1","7",":","0","0">>,
     <<"1","7",":","0","0","-","1","8",":","0","0">>,
     <<"1","8",":","0","0","-","1","9",":","0","0">>,
     <<"1","9",":","0","0","-","2","0",":","0","0">>,
     <<"2","0",":","0","0","-","2","1",":","0","0">> >>

FR_PRACTICE_SLOT_SHORTCUTS ==
  << <<"8",":","0","0","-","1","0",":","0","0">>,
     <<"1","0",":","0","0","-","1","2",":","0","0">>,
     <<"1","2",":","0","0","-","1","4",":","0","0">>,
     <<"1","4",":","0","0","-","1","6",":","0","0">>,
     <<"1","6",":","0","0","-","1","8",":","0","0">>,
     <<"1","8",":","0","0","-","2","0",":","0","0">> >>

time_str_to_int(time_str) ==
  LET parts == split(strip(time_str), ":")
  IN  int(parts[1]) * 60 + int(parts[2])

decide_if_evening_slot(time_str) == time_str_to_int(time_str) >= 1080

\* params(shortcut): start_time, end_time, is_evening_slot, max 0, min 0
params(shortcut) ==
  LET parts == split(shortcut, "-")
  IN  [start_time |-> parts[1], end_time |-> parts[2],
       is_evening_slot |-> decide_if_evening_slot(parts[1]),
       max |-> 0, min |-> 0]

GameSlot(weekday, p) ==
  [ACTIVITY_TYPE |-> GAME, weekday |-> weekday,
   id |-> <<GAME, weekday, p.start_time>>,
   start_time |-> p.start_time, end_time |-> p.end_time,
   is_evening_slot |-> p.is_evening_slot,
   gamemax |-> p.max, gamemin |-> p.min, overlaps |-> {}]

PracticeSlot(weekday, p) ==
  [ACTIVITY_TYPE |-> PRACTICE, weekday |-> weekday,
   id |-> <<PRACTICE, weekday, p.start_time>>,
   start_time |-> p.start_time, end_time |-> p.end_time,
   is_evening_slot |-> p.is_evening_slot,
   practicemax |-> p.max, practicemin |-> p.min, overlaps |-> {}]

ACTIVITY_SLOTS ==
  [i \in 1..Len(MO_GAME_SLOT_SHORTCUTS) |->
      GameSlot(MO, params(MO_GAME_SLOT_SHORTCUTS[i]))]
  \o [i \in 1..Len(TU_GAME_SLOT_SHORTCUTS) |->
      GameSlot(TU, params(TU_GAME_SLOT_SHORTCUTS[i]))]
  \o [i \in 1..Len(MO_PRACTICE_SLOT_SHORTCUTS) |->
      PracticeSlot(MO, params(MO_PRACTICE_SLOT_SHORTCUTS[i]))]
  \o [i \in 1..Len(TU_PRACTICE_SLOT_SHORTCUTS) |->
      PracticeSlot(TU, params(TU_PRACTICE_SLOT_SHORTCUTS[i]))]
  \o [i \in 1..Len(FR_PRACTICE_SLOT_SHORTCUTS) |->
      PracticeSlot(FR, params(FR_PRACTICE_SLOT_SHORTCUTS[i]))]

ALL_SLOT_IDS == {ACTIVITY_SLOTS[i].id : i \in 1..Len(ACTIVITY_SLOTS)}

GAME_SLOT_IDS == {id \in ALL_SLOT_IDS : id[1] = GAME}

PRACTICE_SLOT_IDS == {id \in ALL_SLOT_IDS : id[1] = PRACTICE}

\* The slot objects before the overlaps are filled in, by slot id.
BareSlots ==
  [id \in ALL_SLOT_IDS |->
     ACTIVITY_SLOTS[CHOOSE i \in 1..Len(ACTIVITY_SLOTS) :
                       ACTIVITY_SLOTS[i].id = id]]

\* The test of the overlap loop taking slots that touch as overlapping.
slots_overlap_touching(slot_a_obj, slot_b_obj) ==
  LET slot_a_start == time_str_to_int(slot_a_obj.start_time)
      slot_a_end   == time_str_to_int(slot_a_obj.end_time)
      slot_b_start == time_str_to_int(slot_b_obj.start_time)
      slot_b_end   == time_str_to_int(slot_b_obj.end_time)
  IN  /\ slot_a_obj.weekday = slot_b_obj.weekday
      /\ ~(slot_a_start > slot_b_end \/ slot_a_end < slot_b_start)

\* The test of the overlap loop for the ordered pair (slot_a, slot_b).
slots_overlap(slot_a_obj, slot_b_obj) ==
  LET slot_a_start == time_str_to_int(slot_a_obj.start_time)
      slot_a_end   == time_str_to_int(slot_a_obj.end_time)
      slot_b_start == time_str_to_int(slot_b_obj.start_time)
      slot_b_end   == time_str_to_int(slot_b_obj.end_time)
  IN  /\ slot_a_obj.weekday = slot_b_obj.weekday
      /\ ~(slot_a_start >= slot_b_end \/ slot_a_end <= slot_b_start)

\* The double loop adds b to a.overlaps and a to b.overlaps whenever the
\* test holds for (a, b); so a slot's set holds every b for which the test
\* holds in either order.
Overlaps ==
  [a \in ALL_SLOT_IDS |->
     {b \in ALL_SLOT_IDS :
        \/ slots_overlap(BareSlots[a], BareSlots[b])
        \/ slots_overlap(BareSlots[b], BareSlots[a])}]

SPECIAL_BOOKINGS ==
  ("CMSA U12T1S" :> <<PRACTICE, TU, <<"1","8",":","0","0">>>>)
  @@ ("CMSA U13T1S" :> <<PRACTICE, TU, <<"1","8",":","0","0">>>>)

\* The Layout class after pre_parser_initialization.
pre_parser_initialization ==
  [SPECIAL_BOOKINGS |-> SPECIAL_BOOKINGS,
   SLOT_ID_TO_OBJ |->
     [id \in ALL_SLOT_IDS |-> [BareSlots[id] EXCEPT !.overlaps = Overlaps[id]]],
   W_MINFILLED |-> 0, W_PREF |-> 0, W_PAIR |-> 0, W_SECDIFF |-> 0,
   PEN_GAMEMIN |-> 0, PEN_PRACTICEMIN |-> 0, PEN_NOTPAIRED |-> 0,
   PEN_SECTION |-> 0,
   ACTIVITY_ID_TO_OBJ |-> EmptyMap, GAME_ID_TO_OBJ |-> EmptyMap,
   PRACTICE_ID_TO_OBJ |-> EmptyMap,
   NOT_COMPATIBLE |-> EmptyMap, UNWANTED |-> EmptyMap,
   PREFERENCES |-> EmptyMap, PAIR |-> EmptyMap, PARTASSIGN |-> EmptyMap,
   ACTIVITY_IDS |-> {}, GAME_IDS |-> {}, PRACTICE_IDS |-> {},
   GAME_ID_ORDER |-> <<>>, PRACTICE_ID_ORDER |-> <<>>,
   ALL_SLOT_IDS |-> ALL_SLOT_IDS, PRACTICE_SLOT_IDS |-> PRACTICE_SLOT_IDS,
   GAME_SLOT_IDS |-> GAME_SLOT_IDS]

(***************************************************************************)
(* Games.py, Practices.py: the activity objects                            *)
(***************************************************************************)
Game(id, association, age, tier, division) ==
  [ACTIVITY_TYPE |-> GAME, id |-> id, association |-> association,
   age |-> age, tier |-> tier, division |-> division]

Practice(id, association, age, tier, division, practice_num) ==
  [ACTIVITY_TYPE |-> PRACTICE, id |-> id, association |-> association,
   age |-> age, tier |-> tier, division |-> division,
   practice_num |-> practice_num]

(***************************************************************************)
(* Layout.Adders, on the Layout class as a record L.  GAME_ID_ORDER and    *)
(* PRACTICE_ID_ORDER stand for the insertion order of the dictionaries     *)
(* GAME_ID_TO_OBJ and PRACTICE_ID_TO_OBJ.                                  *)
(***************************************************************************)
add_game(L, game) ==
  [L EXCEPT !.ACTIVITY_ID_TO_OBJ = (game.id :> game) @@ @,
            !.ACTIVITY_IDS = @ \cup {game.id},
            !.GAME_ID_TO_OBJ = (game.id :> game) @@ @,
            !.GAME_IDS = @ \cup {game.id},
            !.GAME_ID_ORDER =
               IF game.id \in L.GAME_IDS THEN @ ELSE Append(@, game.id),
            !.NOT_COMPATIBLE = (game.id :> {}) @@ @]

add_practice(L, practice) ==
  [L EXCEPT !.ACTIVITY_ID_TO_OBJ = (practice.id :> practice) @@ @,
            !.ACTIVITY_IDS = @ \cup {practice.id},
            !.PRACTICE_ID_TO_OBJ = (practice.id :> practice) @@ @,
            !.PRACTICE_IDS = @ \cup {practice.id},
            !.PRACTICE_ID_ORDER =
               IF practice.id \in L.PRACTICE_IDS THEN @
               ELSE Append(@, practice.id),
            !.NOT_COMPATIBLE = (practice.id :> {}) @@ @]

\* add_not_compatible recording the pair under its first activity only.
add_not_compatible_one_way(L, activity1_id, activity2_id) ==
  [L EXCEPT !.NOT_COMPATIBLE[activity1_id] = @ \cup {activity2_id}]

add_not_compatible(L, activity1_id, activity2_id) ==
  LET first == [L.NOT_COMPATIBLE EXCEPT ![activity1_id] = @ \cup {activity2_id}]
  IN  [L EXCEPT !.NOT_COMPATIBLE =
                   [first EXCEPT ![activity2_id] = @ \cup {activity1_id}]]

add_unwanted(L, activity_id, slot_id) ==
  LET had == IF activity_id \in DOMAIN L.UNWANTED
             THEN L.UNWANTED[activity_id] ELSE {}
  IN  [L EXCEPT !.UNWANTED = (activity_id :> (had \cup {slot_id})) @@ @]

\* preference = (activity_id, slot_id, pref_value)
add_preference(L, preference) ==
  LET activity_id == preference[1]
      had == IF activity_id \in DOMAIN L.PREFERENCES
             THEN L.PREFERENCES[activity_id] ELSE {}
  IN  [L EXCEPT !.PREFERENCES =
         (activity_id :> (had \cup {<<preference[2], preference[3]>>})) @@ @]

\* add_pair recording the pair under its first activity only.
add_pair_one_way(L, pair) ==
  LET activity_a == pair[1]
      activity_b == pair[2]
      had == IF activity_a \in DOMAIN L.PAIR THEN L.PAIR[activity_a] ELSE {}
  IN  [L EXCEPT !.PAIR = (activity_a :> (had \cup {activity_b})) @@ @]

\* pair = (activity_a, activity_b)
add_pair(L, pair) ==
  LET activity_a == pair[1]
      activity_b == pair[2]
      got(P, x) == IF x \in DOMAIN P THEN P[x] ELSE {}
      first == (activity_a :> (got(L.PAIR, activity_a) \cup {activity_b}))
               @@ L.PAIR
      second == (activity_b :> (got(first, activity_b) \cup {activity_a}))
                @@ first
  IN  [L EXCEPT !.PAIR = second]

\* partassign = (activity_id, slot_id)
add_partassign(L, partassign) ==
  [L EXCEPT !.PARTASSIGN = (partassign[1] :> partassign[2]) @@ @]

(***************************************************************************)
(* The parser (IO/Parser.py, not part of the sources at hand): it loads an *)
(* input into Layout through the Adders, after setting the weights and the *)
(* capacities of the slots the input lists.                                *)
(***************************************************************************)
\* One line of the input's game-slot or practice-slot section.
set_game_slot(L, line) ==
  [L EXCEPT !.SLOT_ID_TO_OBJ[line.id].gamemax = line.max,
            !.SLOT_ID_TO_OBJ[line.id].gamemin = line.min]

set_practice_slot(L, line) ==
  [L EXCEPT !.SLOT_ID_TO_OBJ[line.id].practicemax = line.max,
            !.SLOT_ID_TO_OBJ[line.id].practicemin = line.min]

set_weights(L, w) ==
  [L EXCEPT !.W_MINFILLED = w.W_MINFILLED, !.W_PREF = w.W_PREF,
            !.W_PAIR = w.W_PAIR, !.W_SECDIFF = w.W_SECDIFF,
            !.PEN_GAMEMIN = w.PEN_GAMEMIN,
            !.PEN_PRACTICEMIN = w.PEN_PRACTICEMIN,
            !.PEN_NOTPAIRED = w.PEN_NOTPAIRED, !.PEN_SECTION = w.PEN_SECTION]

add_not_compatible_line(L, line) == add_not_compatible(L, line[1], line[2])

add_unwanted_line(L, line) == add_unwanted(L, line[1], line[2])

\* One line of the named section of the input.
add_line(L, section, line) ==
  CASE section = "game_slots" -> set_game_slot(L, line)
    [] section = "practice_slots" -> set_practice_slot(L, line)
    [] section = "games" -> add_game(L, line)
    [] section = "practices" -> add_practice(L, line)
    [] section = "not_compatible" -> add_not_compatible_line(L, line)
    [] section = "unwanted" -> add_unwanted_line(L, line)
    [] section = "preferences" -> add_preference(L, line)
    [] section = "pair" -> add_pair(L, line)
    [] section = "partassign" -> add_partassign(L, line)

\* The lines of a section, in the order of the input.
RECURSIVE FoldAdd(_, _, _)
FoldAdd(L, section, lines) ==
  IF lines = <<>> THEN L
  ELSE FoldAdd(add_line(L, section, Head(lines)), section, Tail(lines))

parse(L, input) ==
  LET L1 == set_weights(L, input.weights)
      L2 == FoldAdd(L1, "game_slots", input.game_slots)
      L3 == FoldAdd(L2, "practice_slots", input.practice_slots)
      L4 == FoldAdd(L3, "games", input.games)
      L5 == FoldAdd(L4, "practices", input.practices)
      L6 == FoldAdd(L5, "not_compatible", input.not_compatible)
      L7 == FoldAdd(L6, "unwanted", input.unwanted)
      L8 == FoldAdd(L7, "preferences", input.preferences)
      L9 == FoldAdd(L8, "pair", input.pair)
  IN  FoldAdd(L9, "partassign", input.partassign)

(***************************************************************************)
(* Layout.post_parser_initialization: the administrative-meeting slots.    *)
(* Python creates an attribute on assignment, so the two practice slots    *)
(* gain gamemin and gamemax beside their practicemin and practicemax.      *)
(***************************************************************************)
setattr(obj, name, value) == (name :> value) @@ obj

post_parser_initialization(L) ==
  LET slot_a_id == <<GAME, TU, <<"1","1",":","0","0">>>>
      slot_b_id == <<PRACTICE, TU, <<"1","1",":","0","0">>>>
      slot_c_id == <<PRACTICE, TU, <<"1","2",":","0","0">>>>
      zeroed(obj) == setattr(setattr(obj, "gamemin", 0), "gamemax", 0)
  IN  [L EXCEPT !.SLOT_ID_TO_OBJ =
         [id \in DOMAIN @ |->
            IF id \in {slot_a_id, slot_b_id, slot_c_id}
            THEN zeroed(@[id]) ELSE @[id]]]

(***************************************************************************)
(* Problem inputs.  Every slot named is a slot of the fixed grid.  A slot  *)
(* line marked scaled takes the capacity chosen with the instance          *)
(* (0..MaxCap) as its max; the other lines keep the max they state.        *)
(***************************************************************************)
MaxCap == 2

T_8 == <<"8",":","0","0">>

T_9 == <<"9",":","0","0">>

T_10 == <<"1","0",":","0","0">>

T_16 == <<"1","6",":","0","0">>

T_17 == <<"1","7",":","0","0">>

T_18 == <<"1","8",":","0","0">>

T_19 == <<"1","9",":","0","0">>

T_20 == <<"2","0",":","0","0">>

SlotLine(id, max, min, scaled) ==
  [id |-> id, max |-> max, min |-> min, scaled |-> scaled]

\* w: the four weights; pen: the four penalties.
Weights(w, pen) ==
  [W_MINFILLED |-> w[1], W_PREF |-> w[2], W_PAIR |-> w[3], W_SECDIFF |-> w[4],
   PEN_GAMEMIN |-> pen[1], PEN_PRACTICEMIN |-> pen[2],
   PEN_NOTPAIRED |-> pen[3], PEN_SECTION |-> pen[4]]

ZeroWeights == Weights(<<0, 0, 0, 0>>, <<0, 0, 0, 0>>)

\* A closed slot of each kind, used to give an activity its UNWANTED entry.
FarGameSlot == <<GAME, MO, T_20>>

FarPracticeSlot == <<PRACTICE, FR, T_16>>

\* Three games of ages U15, U16, U18; one scaled and one single-place slot.
InputAges ==
  [games |-> << Game("g15", "CSMA", "U15", "T1", <<"0","1">>),
                Game("g16", "CSMA", "U16", "T1", <<"0","1">>),
                Game("g18", "CSMA", "U18", "T1", None) >>,
   practices |-> <<>>,
   game_slots |-> << SlotLine(<<GAME, MO, T_8>>, 0, 0, TRUE),
                     SlotLine(<<GAME, MO, T_18>>, 1, 0, FALSE) >>,
   practice_slots |-> <<>>,
   not_compatible |-> <<>>,
   unwanted |-> << <<"g15", FarGameSlot>>, <<"g16", FarGameSlot>>,
                   <<"g18", FarGameSlot>> >>,
   preferences |-> <<>>, pair |-> <<>>, partassign |-> <<>>,
   weights |-> ZeroWeights]

\* The special booking CMSA U12T1S loaded as a game, beside two practices
\* that compete for its practice slot.
InputSpecialGame ==
  [games |-> << Game("CMSA U12T1S", "CMSA", "U12", "T1S", None) >>,
   practices |-> << Practice("p1", "CSMA", "U10", "T1", <<"0","1">>, 1),
                    Practice("p2", "CSMA", "U11", "T1", <<"0","1">>, 1) >>,
   game_slots |-> <<>>,
   practice_slots |-> << SlotLine(<<PRACTICE, TU, T_18>>, 0, 0, TRUE),
                         SlotLine(<<PRACTICE, MO, T_8>>, 1, 0, FALSE) >>,
   not_compatible |-> <<>>,
   unwanted |-> << <<"CMSA U12T1S", FarGameSlot>>,
                   <<"p1", FarPracticeSlot>>, <<"p2", FarPracticeSlot>> >>,
   preferences |-> <<>>, pair |-> <<>>, partassign |-> <<>>,
   weights |-> ZeroWeights]

\* The special booking CMSA U13T1S loaded as a practice, beside the game
\* CMSA U13T1 of the same association, age and tier T1.
InputSpecialPractice ==
  [games |-> << Game("CMSA U13T1", "CMSA", "U13", "T1", <<"0","1">>) >>,
   practices |-> << Practice("CMSA U13T1S", "CMSA", "U13", "T1S", None, 1) >>,
   game_slots |-> << SlotLine(<<GAME, TU, T_17>>, 1, 0, FALSE),
                     SlotLine(<<GAME, MO, T_8>>, 1, 0, FALSE) >>,
   practice_slots |-> << SlotLine(<<PRACTICE, TU, T_18>>, 0, 0, TRUE),
                         SlotLine(<<PRACTICE, TU, T_9>>, 1, 0, FALSE) >>,
   not_compatible |-> <<>>,
   unwanted |-> << <<"CMSA U13T1", FarGameSlot>>,
                   <<"CMSA U13T1S", FarPracticeSlot>> >>,
   preferences |-> <<>>, pair |-> <<>>, partassign |-> <<>>,
   weights |-> ZeroWeights]

\* Division 95 and division 9 activities (evening only), a division 19
\* game with a part-assignment, a practice without a division, and an
\* unwanted slot that is open.
InputEvening ==
  [games |-> << Game("g9", "CSMA", "U10", "T1", <<"9","5">>),
                Game("g19", "CSMA", "U10", "T2", <<"1","9">>) >>,
   practices |-> << Practice("p9", "CSMA", "U10", "T3", <<"9">>, 1),
                    Practice("pN", "CSMA", "U10", "T4", None, 1) >>,
   game_slots |-> << SlotLine(<<GAME, MO, T_8>>, 0, 0, TRUE),
                     SlotLine(<<GAME, MO, T_18>>, 1, 0, FALSE),
                     SlotLine(<<GAME, MO, T_19>>, 1, 0, FALSE) >>,
   practice_slots |-> << SlotLine(<<PRACTICE, MO, T_8>>, 1, 0, FALSE),
                         SlotLine(<<PRACTICE, MO, T_18>>, 0, 0, TRUE) >>,
   not_compatible |-> <<>>,
   unwanted |-> << <<"g9", <<GAME, MO, T_19>>>>, <<"g19", FarGameSlot>>,
                   <<"p9", FarPracticeSlot>>, <<"pN", FarPracticeSlot>> >>,
   preferences |-> <<>>, pair |-> <<>>,
   partassign |-> << <<"g19", <<GAME, MO, T_8>>>> >>,
   weights |-> ZeroWeights]

\* A game and two practices of one division; the Tuesday 8:00-9:30 game
\* slot overlaps the Tuesday 9:00 practice slot and not the 10:00 one.
InputDivision ==
  [games |-> << Game("gA", "CSMA", "U10", "T1", <<"0","1">>) >>,
   practices |-> << Practice("pA1", "CSMA", "U10", "T1", <<"0","1">>, 1),
                    Practice("pA2", "CSMA", "U10", "T1", <<"0","1">>, 2) >>,
   game_slots |-> << SlotLine(<<GAME, TU, T_8>>, 0, 0, TRUE),
                     SlotLine(<<GAME, MO, T_8>>, 1, 0, FALSE) >>,
   practice_slots |-> << SlotLine(<<PRACTICE, TU, T_9>>, 2, 0, FALSE),
                         SlotLine(<<PRACTICE, TU, T_10>>, 1, 0, FALSE) >>,
   not_compatible |-> <<>>,
   unwanted |-> << <<"gA", FarGameSlot>>, <<"pA1", FarPracticeSlot>>,
                   <<"pA2", FarPracticeSlot>> >>,
   preferences |-> <<>>, pair |-> <<>>, partassign |-> <<>>,
   weights |-> ZeroWeights]

\* Two games that are not compatible, a scaled and a single-place slot.
InputConflict ==
  [games |-> << Game("G1", "CSMA", "U10", "T1", <<"0","1">>),
                Game("G2", "CSMA", "U10", "T1", <<"0","2">>) >>,
   practices |-> <<>>,
   game_slots |-> << SlotLine(<<GAME, MO, T_8>>, 0, 0, TRUE),
                     SlotLine(<<GAME, MO, T_9>>, 1, 0, FALSE) >>,
   practice_slots |-> <<>>,
   not_compatible |-> << <<"G1", "G2">> >>,
   unwanted |-> << <<"G1", FarGameSlot>>, <<"G2", FarGameSlot>> >>,
   preferences |-> <<>>, pair |-> <<>>, partassign |-> <<>>,
   weights |-> ZeroWeights]

\* Two paired games; G1 prefers the single-place slot.
InputPair ==
  [games |-> << Game("G1", "CSMA", "U10", "T1", <<"0","1">>),
                Game("G2", "CSMA", "U10", "T2", <<"0","1">>) >>,
   practices |-> <<>>,
   game_slots |-> << SlotLine(<<GAME, MO, T_8>>, 1, 0, FALSE),
                     SlotLine(<<GAME, MO, T_9>>, 0, 0, TRUE) >>,
   practice_slots |-> <<>>,
   not_compatible |-> <<>>,
   unwanted |-> << <<"G1", FarGameSlot>>, <<"G2", FarGameSlot>> >>,
   preferences |-> << <<"G1", <<GAME, MO, T_8>>, 3>> >>,
   pair |-> << <<"G1", "G2">> >>,
   partassign |-> <<>>,
   weights |-> Weights(<<0, 1, 1, 0>>, <<0, 0, 10, 0>>)]

\* Two games and a scaled game slot with a minimum of 2; filling a slot up
\* to its minimum is rewarded.
InputMin ==
  [games |-> << Game("G1", "CSMA", "U10", "T1", <<"0","1">>),
                Game("G2", "CSMA", "U11", "T1", <<"0","1">>) >>,
   practices |-> <<>>,
   game_slots |-> << SlotLine(<<GAME, MO, T_8>>, 0, 2, TRUE),
                     SlotLine(<<GAME, MO, T_9>>, 1, 0, FALSE) >>,
   practice_slots |-> <<>>,
   not_compatible |-> <<>>,
   unwanted |-> << <<"G1", FarGameSlot>>, <<"G2", FarGameSlot>> >>,
   preferences |-> <<>>, pair |-> <<>>, partassign |-> <<>>,
   weights |-> Weights(<<1, 0, 0, 0>>, <<3, 0, 0, 0>>)]

\* Three games whose only slot is one scaled game slot.
InputThree ==
  [games |-> << Game("G1", "CSMA", "U10", "T1", <<"0","1">>),
                Game("G2", "CSMA", "U10", "T1", <<"0","2">>),
                Game("G3", "CSMA", "U10", "T1", <<"0","3">>) >>,
   practices |-> <<>>,
   game_slots |-> << SlotLine(<<GAME, MO, T_8>>, 0, 0, TRUE) >>,
   practice_slots |-> <<>>,
   not_compatible |-> <<>>,
   unwanted |-> << <<"G1", FarGameSlot>>, <<"G2", FarGameSlot>>,
                   <<"G3", FarGameSlot>> >>,
   preferences |-> <<>>, pair |-> <<>>, partassign |-> <<>>,
   weights |-> ZeroWeights]

\* Two games that are not compatible whose only slot is one scaled game
\* slot.
InputConflictOne ==
  [games |-> << Game("G1", "CSMA", "U10", "T1", <<"0","1">>),
                Game("G2", "CSMA", "U10", "T1", <<"0","2">>) >>,
   practices |-> <<>>,
   game_slots |-> << SlotLine(<<GAME, MO, T_8>>, 0, 0, TRUE) >>,
   practice_slots |-> <<>>,
   not_compatible |-> << <<"G1", "G2">> >>,
   unwanted |-> << <<"G1", FarGameSlot>>, <<"G2", FarGameSlot>> >>,
   preferences |-> <<>>, pair |-> <<>>, partassign |-> <<>>,
   weights |-> ZeroWeights]

\* One game, a scaled game slot and a single-place game slot that the
\* game prefers with value 5; only the preferences are weighted.
InputPref ==
  [games |-> << Game("G1", "CSMA", "U10", "T1", <<"0","1">>) >>,
   practices |-> <<>>,
   game_slots |-> << SlotLine(<<GAME, MO, T_8>>, 0, 0, TRUE),
                     SlotLine(<<GAME, MO, T_9>>, 1, 0, FALSE) >>,
   practice_slots |-> <<>>,
   not_compatible |-> <<>>,
   unwanted |-> << <<"G1", FarGameSlot>> >>,
   preferences |-> << <<"G1", <<GAME, MO, T_9>>, 5>> >>,
   pair |-> <<>>, partassign |-> <<>>,
   weights |-> Weights(<<0, 1, 0, 0>>, <<0, 0, 0, 0>>)]

\* Two paired games, a scaled game slot and a single-place game slot; only
\* the pairs are weighted.
InputPairOnly ==
  [games |-> << Game("G1", "CSMA", "U10", "T1", <<"0","1">>),
                Game("G2", "CSMA", "U10", "T2", <<"0","1">>) >>,
   practices |-> <<>>,
   game_slots |-> << SlotLine(<<GAME, MO, T_8>>, 0, 0, TRUE),
                     SlotLine(<<GAME, MO, T_9>>, 1, 0, FALSE) >>,
   practice_slots |-> <<>>,
   not_compatible |-> <<>>,
   unwanted |-> << <<"G1", FarGameSlot>>, <<"G2", FarGameSlot>> >>,
   preferences |-> <<>>,
   pair |-> << <<"G1", "G2">> >>,
   partassign |-> <<>>,
   weights |-> Weights(<<0, 0, 1, 0>>, <<0, 0, 10, 0>>)]

\* The special booking CMSA U12T1S loaded as a game while no line of the
\* input opens its practice slot TU 18:00.
InputSpecialClosed ==
  [games |-> << Game("CMSA U12T1S", "CMSA", "U12", "T1S", None) >>,
   practices |-> <<>>,
   game_slots |-> << SlotLine(<<GAME, MO, T_8>>, 0, 0, TRUE) >>,
   practice_slots |-> <<>>,
   not_compatible |-> <<>>,
   unwanted |-> << <<"CMSA U12T1S", FarGameSlot>> >>,
   preferences |-> <<>>, pair |-> <<>>, partassign |-> <<>>,
   weights |-> ZeroWeights]

\* Activities with ids of 2, 15 and 22 characters, a Friday practice slot
\* at 10:00, and a preference of value 12.
InputPrint ==
  [games |-> << Game("G1", "CSMA", "U10", "T1", <<"0","1">>),
                Game("CUSA O18 DIV 01", "CUSA", "O18", "T1", <<"0","1">>) >>,
   practices |-> << Practice("CUSA O18 DIV 01 PRC 01", "CUSA", "O18", "T1",
                             <<"0","1">>, 1) >>,
   game_slots |-> << SlotLine(<<GAME, MO, T_8>>, 0, 0, TRUE),
                     SlotLine(<<GAME, TU, T_8>>, 1, 0, FALSE) >>,
   practice_slots |-> << SlotLine(<<PRACTICE, FR, T_10>>, 1, 0, FALSE) >>,
   not_compatible |-> <<>>,
   unwanted |-> << <<"G1", FarGameSlot>>,
                   <<"CUSA O18 DIV 01", FarGameSlot>>,
                   <<"CUSA O18 DIV 01 PRC 01", FarPracticeSlot>> >>,
   preferences |-> << <<"CUSA O18 DIV 01", <<GAME, TU, T_8>>, 12>> >>,
   pair |-> <<>>, partassign |-> <<>>,
   weights |-> Weights(<<0, 1, 0, 0>>, <<0, 0, 0, 0>>)]

\* A game and two practices; a scaled game slot with a minimum of 1 and a
\* scaled practice slot with a minimum of 2; only the minimums are weighted.
InputMinBoth ==
  [games |-> << Game("G1", "CSMA", "U10", "T1", <<"0","1">>) >>,
   practices |-> << Practice("P1", "CSMA", "U11", "T1", <<"0","1">>, 1),
                    Practice("P2", "CSMA", "U11", "T1", <<"0","2">>, 1) >>,
   game_slots |-> << SlotLine(<<GAME, MO, T_8>>, 0, 1, TRUE) >>,
   practice_slots |-> << SlotLine(<<PRACTICE, FR, T_10>>, 0, 2, TRUE) >>,
   not_compatible |-> <<>>,
   unwanted |-> << <<"G1", FarGameSlot>>, <<"P1", FarPracticeSlot>>,
                   <<"P2", FarPracticeSlot>> >>,
   preferences |-> <<>>, pair |-> <<>>, partassign |-> <<>>,
   weights |-> Weights(<<2, 0, 0, 0>>, <<3, 4, 0, 0>>)]

\* Two games of one association, age group and tier and a third of another
\* tier; a scaled game slot and a game slot of three places; only the
\* sections are weighted.
InputSection ==
  [games |-> << Game("G1", "CSMA", "U10", "T1", <<"0","1">>),
                Game("G2", "CSMA", "U10", "T1", <<"0","2">>),
                Game("G3", "CSMA", "U10", "T2", <<"0","1">>) >>,
   practices |-> <<>>,
   game_slots |-> << SlotLine(<<GAME, MO, T_8>>, 0, 0, TRUE),
                     SlotLine(<<GAME, MO, T_9>>, 3, 0, FALSE) >>,
   practice_slots |-> <<>>,
   not_compatible |-> <<>>,
   unwanted |-> << <<"G1", FarGameSlot>>, <<"G2", FarGameSlot>>,
                   <<"G3", FarGameSlot>> >>,
   preferences |-> <<>>, pair |-> <<>>, partassign |-> <<>>,
   weights |-> Weights(<<0, 0, 0, 1>>, <<0, 0, 0, 5>>)]

\* The special booking CMSA U12T1S loaded as a game beside an ordinary game
\* and a practice for which one of the two practice slots is unwanted.
InputSpecialMixed ==
  [games |-> << Game("CMSA U12T1S", "CMSA", "U12", "T1S", None),
                Game("G1", "CSMA", "U10", "T1", <<"0","1">>) >>,
   practices |-> << Practice("p1", "CSMA", "U10", "T1", <<"0","1">>, 1) >>,
   game_slots |-> << SlotLine(<<GAME, MO, T_8>>, 1, 0, FALSE) >>,
   practice_slots |-> << SlotLine(<<PRACTICE, TU, T_18>>, 0, 0, TRUE),
                         SlotLine(<<PRACTICE, MO, T_9>>, 1, 0, FALSE) >>,
   not_compatible |-> <<>>,
   unwanted |-> << <<"CMSA U12T1S", FarGameSlot>>, <<"G1", FarGameSlot>>,
                   <<"p1", <<PRACTICE, MO, T_9>> >> >>,
   preferences |-> <<>>, pair |-> <<>>, partassign |-> <<>>,
   weights |-> ZeroWeights]

\* One game, a scaled game slot with a minimum of 1 and a game slot of one
\* place that the game prefers; the minimums and the preferences are both
\* weighted.
InputOrder ==
  [games |-> << Game("G1", "CSMA", "U10", "T1", <<"0","1">>) >>,
   practices |-> <<>>,
   game_slots |-> << SlotLine(<<GAME, MO, T_8>>, 0, 1, TRUE),
                     SlotLine(<<GAME, MO, T_9>>, 1, 0, FALSE) >>,
   practice_slots |-> <<>>,
   not_compatible |-> <<>>,
   unwanted |-> << <<"G1", FarGameSlot>> >>,
   preferences |-> << <<"G1", <<GAME, MO, T_9>>, 2>> >>,
   pair |-> <<>>, partassign |-> <<>>,
   weights |-> Weights(<<1, 1, 0, 0>>, <<3, 0, 0, 0>>)]

\* A game and a practice; the input lists the three slots of the
\* administrative meeting with places, beside a scaled slot of each kind.
InputAdmin ==
  [games |-> << Game("G1", "CSMA", "U10", "T1", <<"0","1">>) >>,
   practices |-> << Practice("P1", "CSMA", "U11", "T1", <<"0","1">>, 1) >>,
   game_slots |-> << SlotLine(<<GAME, TU, <<"1","1",":","0","0">>>>, 2, 0, FALSE),
                     SlotLine(<<GAME, MO, T_8>>, 0, 0, TRUE) >>,
   practice_slots |-> << SlotLine(<<PRACTICE, TU, <<"1","1",":","0","0">>>>, 1, 0, FALSE),
                         SlotLine(<<PRACTICE, TU, <<"1","2",":","0","0">>>>, 1, 0, FALSE),
                         SlotLine(<<PRACTICE, FR, T_10>>, 0, 0, TRUE) >>,
   not_compatible |-> <<>>,
   unwanted |-> << <<"G1", FarGameSlot>>, <<"P1", FarPracticeSlot>> >>,
   preferences |-> <<>>, pair |-> <<>>, partassign |-> <<>>,
   weights |-> ZeroWeights]

\* A game that no unwanted line of the input names.
InputNoUnwanted ==
  [games |-> << Game("G1", "CSMA", "U10", "T1", <<"0","1">>) >>,
   practices |-> <<>>,
   game_slots |-> << SlotLine(<<GAME, MO, T_8>>, 0, 0, TRUE) >>,
   practice_slots |-> <<>>,
   not_compatible |-> <<>>, unwanted |-> <<>>,
   preferences |-> <<>>, pair |-> <<>>, partassign |-> <<>>,
   weights |-> ZeroWeights]

\* No games and no practices.
InputEmpty ==
  [games |-> <<>>, practices |-> <<>>,
   game_slots |-> << SlotLine(<<GAME, MO, T_8>>, 0, 0, TRUE) >>,
   practice_slots |-> <<>>,
   not_compatible |-> <<>>, unwanted |-> <<>>,
   preferences |-> <<>>, pair |-> <<>>, partassign |-> <<>>,
   weights |-> ZeroWeights]

Inputs ==
  << InputAges, InputSpecialGame, InputSpecialPractice, InputEvening,
     InputDivision, InputConflict, InputPair, InputNoUnwanted, InputEmpty,
     InputMin, InputThree, InputConflictOne, InputPref,
     InputPairOnly, InputSpecialClosed, InputPrint, InputMinBoth,
     InputSection, InputSpecialMixed, InputOrder, InputAdmin >>

\* The input with its scaled slot lines given capacity cap.
WithCap(input, cap) ==
  LET scale(lines) ==
        [i \in 1..Len(lines) |->
           IF lines[i].scaled THEN [lines[i] EXCEPT !.max = cap]
           ELSE lines[i]]
  IN  [input EXCEPT !.game_slots = scale(@), !.practice_slots = scale(@)]

Instances == {<<i, cap>> : i \in 1..Len(Inputs), cap \in 0..MaxCap}

\* Main.main up to the search: the grid, the parser, the meeting slots.
LayoutOf ==
  [i \in Instances |->
     post_parser_initialization(
       parse(pre_parser_initialization, WithCap(Inputs[i[1]], i[2])))]

(***************************************************************************)
(* Schedule (Schedule.py, not part of the sources at hand), after the data *)
(* model of the specification.  The remaining and vacant collections are   *)
(* kept as lists: the order in which div enumerates them is the order of   *)
(* declaration in the input and the order of the grid.                     *)
(***************************************************************************)
GridOrder == [i \in 1..Len(ACTIVITY_SLOTS) |-> ACTIVITY_SLOTS[i].id]

slot_max(slot_id) ==
  IF slot_id[1] = GAME THEN Layout.SLOT_ID_TO_OBJ[slot_id].gamemax
  ELSE Layout.SLOT_ID_TO_OBJ[slot_id].practicemax

\* The empty schedule, Schedule().
Schedule ==
  [assignments |-> [s \in Layout.ALL_SLOT_IDS |-> {}],
   slot_of_each_activity |-> EmptyMap,
   remaining_games |-> Layout.GAME_ID_ORDER,
   remaining_practices |-> Layout.PRACTICE_ID_ORDER,
   vacant_game_slots |->
     SelectSeq(GridOrder, LAMBDA id : id[1] = GAME /\ slot_max(id) > 0),
   vacant_practice_slots |->
     SelectSeq(GridOrder, LAMBDA id : id[1] = PRACTICE /\ slot_max(id) > 0),
   eval |-> 0,
   latest_assignment |-> <<>>]

\* schedule.get_copy(): an independent copy with the same content.
get_copy(schedule) == schedule

Remove(list, x) == SelectSeq(list, LAMBDA y : y # x)

\* assign_activity leaving a slot that has reached its max in the vacant
\* lists.
assign_activity_keeps_vacant(schedule, activity_id, slot_id) ==
  [schedule EXCEPT
     !.assignments = [@ EXCEPT ![slot_id] = @ \cup {activity_id}],
     !.slot_of_each_activity = (activity_id :> slot_id) @@ @,
     !.remaining_games = Remove(@, activity_id),
     !.remaining_practices = Remove(@, activity_id),
     !.latest_assignment = <<activity_id, slot_id>>]

assign_activity(schedule, activity_id, slot_id) ==
  LET placed == [schedule.assignments EXCEPT ![slot_id] = @ \cup {activity_id}]
      full == Cardinality(placed[slot_id]) >= slot_max(slot_id)
  IN  [schedule EXCEPT
         !.assignments = placed,
         !.slot_of_each_activity = (activity_id :> slot_id) @@ @,
         !.remaining_games = Remove(@, activity_id),
         !.remaining_practices = Remove(@, activity_id),
         !.vacant_game_slots = IF full THEN Remove(@, slot_id) ELSE @,
         !.vacant_practice_slots = IF full THEN Remove(@, slot_id) ELSE @,
         !.latest_assignment = <<activity_id, slot_id>>]

(***************************************************************************)
(* Constraints/HardConstraints.py.  An assignment is the pair              *)
(* <<activity_id, slot_id>>.                                               *)
(***************************************************************************)
game_max(schedule, assignment) ==
  LET slot_id == assignment[2]
      activity_type == slot_id[1]
      slot_obj == Layout.SLOT_ID_TO_OBJ[slot_id]
  IN  IF activity_type # GAME THEN TRUE
      ELSE IF Cardinality(schedule.assignments[slot_id]) >= slot_obj.gamemax
      THEN FALSE
      ELSE TRUE

\* practice_max rejecting only a slot that is over its maximum.
practice_max_over(schedule, assignment) ==
  LET slot_id == assignment[2]
      slot_obj == Layout.SLOT_ID_TO_OBJ[slot_id]
  IN  IF slot_id[1] # PRACTICE THEN TRUE
      ELSE ~(Cardinality(schedule.assignments[slot_id]) > slot_obj.practicemax)

practice_max(schedule, assignment) ==
  LET slot_id == assignment[2]
      activity_type == slot_id[1]
      slot_obj == Layout.SLOT_ID_TO_OBJ[slot_id]
  IN  IF activity_type # PRACTICE THEN TRUE
      ELSE IF Cardinality(schedule.assignments[slot_id]) >= slot_obj.practicemax
      THEN FALSE
      ELSE TRUE

\* gp_same_slot looking at the candidate slot itself and not at the slots
\* that overlap it.
gp_same_slot_only(schedule, assignment) ==
  LET activity_obj == Layout.ACTIVITY_ID_TO_OBJ[assignment[1]]
  IN  \A act_id \in schedule.assignments[assignment[2]] :
        LET act_obj == Layout.ACTIVITY_ID_TO_OBJ[act_id]
        IN  \/ /\ activity_obj.ACTIVITY_TYPE = PRACTICE
               /\ act_obj.ACTIVITY_TYPE = PRACTICE
            \/ ~(/\ activity_obj.association = act_obj.association
                 /\ activity_obj.age = act_obj.age
                 /\ activity_obj.tier = act_obj.tier
                 /\ activity_obj.division = act_obj.division)

gp_same_slot(schedule, assignment) ==
  LET activity_id == assignment[1]
      slot_id == assignment[2]
      slot_obj == Layout.SLOT_ID_TO_OBJ[slot_id]
      overlapping_slots == slot_obj.overlaps
      activity_obj == Layout.ACTIVITY_ID_TO_OBJ[activity_id]
      type_a == activity_obj.ACTIVITY_TYPE
  IN  \A overlapping_slot \in overlapping_slots :
        \A act_id \in schedule.assignments[overlapping_slot] :
          LET act_obj == Layout.ACTIVITY_ID_TO_OBJ[act_id]
              type_b == act_obj.ACTIVITY_TYPE
              same_assoc == activity_obj.association = act_obj.association
              same_age == activity_obj.age = act_obj.age
              same_tier == activity_obj.tier = act_obj.tier
              same_division == activity_obj.division = act_obj.division
          IN  \/ type_a = PRACTICE /\ type_b = PRACTICE
              \/ ~(same_assoc /\ same_age /\ same_tier /\ same_division)

not_compatible(schedule, assignment) ==
  LET activity_id == assignment[1]
      slot_id == assignment[2]
  IN  \A id \in schedule.assignments[slot_id] :
        id \notin Layout.NOT_COMPATIBLE[activity_id]

\* part_assign comparing the kind and the weekday of the slot and not its
\* start time.
part_assign_by_day(schedule, assignment) ==
  LET activity_id == assignment[1]
      slot_id == assignment[2]
  IN  IF activity_id \notin DOMAIN Layout.PARTASSIGN THEN TRUE
      ELSE /\ slot_id[1] = Layout.PARTASSIGN[activity_id][1]
           /\ slot_id[2] = Layout.PARTASSIGN[activity_id][2]

part_assign(schedule, assignment) ==
  LET activity_id == assignment[1]
      slot_id == assignment[2]
  IN  IF activity_id \notin DOMAIN Layout.PARTASSIGN THEN TRUE
      ELSE slot_id = Layout.PARTASSIGN[activity_id]

\* Layout.UNWANTED[activity_id] is a KeyError for an activity that no
\* add_unwanted call has named.
unwanted_raises(schedule, assignment) ==
  assignment[1] \notin DOMAIN Layout.UNWANTED

\* unwanted with a loop that never finds the slot.
unwanted_never(schedule, assignment) == TRUE

unwanted(schedule, assignment) ==
  LET activity_id == assignment[1]
      slot_id == assignment[2]
  IN  \A slot \in Layout.UNWANTED[activity_id] : slot_id # slot

check_general_constraints(schedule, assignment) ==
  LET activity_type == assignment[2][1]
      passes == IF activity_type = GAME THEN game_max(schedule, assignment)
                ELSE practice_max(schedule, assignment)
  IN  /\ passes
      /\ gp_same_slot(schedule, assignment)
      /\ not_compatible(schedule, assignment)
      /\ part_assign(schedule, assignment)
      /\ unwanted(schedule, assignment)

\* Parser.decide_if_evening_slot (IO/Parser.py, not part of the sources at
\* hand): a slot is an evening slot when its start time is 18:00 or later.
Parser_decide_if_evening_slot(time_str) == time_str_to_int(time_str) >= 18 * 60

\* evening_slot_constraint for the division 9 alone, and not for every
\* division that starts with 9.
evening_slot_constraint_exact(schedule, assignment) ==
  LET activity_obj == Layout.ACTIVITY_ID_TO_OBJ[assignment[1]]
  IN  IF activity_obj.division = <<"9">>
      THEN Parser_decide_if_evening_slot(assignment[2][3])
      ELSE TRUE

evening_slot_constraint(schedule, assignment) ==
  LET activity_id == assignment[1]
      slot_id == assignment[2]
      activity_obj == Layout.ACTIVITY_ID_TO_OBJ[activity_id]
  IN  IF activity_obj.division[1] = "9"
      THEN Parser_decide_if_evening_slot(slot_id[3])
      ELSE TRUE

\* The mutually exclusive ages without U16.
MUTEX_AGES_without_U16 == {"U15", "U17", "U19"}

MUTEX_AGES == {"U15", "U16", "U17", "U19"}

age_group_constraint(schedule, assignment) ==
  LET activity_id == assignment[1]
      slot_id == assignment[2]
      activity_type == slot_id[1]
  IN  IF activity_type # GAME THEN TRUE
      ELSE IF Layout.GAME_ID_TO_OBJ[activity_id].age \notin MUTEX_AGES THEN TRUE
      ELSE \A act_id \in schedule.assignments[slot_id] :
             \/ act_id = activity_id
             \/ Layout.GAME_ID_TO_OBJ[act_id].age \notin MUTEX_AGES

special_bookings_constraint(schedule, assignment) ==
  LET activity_id == assignment[1]
      slot_id == assignment[2]
      act_obj == Layout.ACTIVITY_ID_TO_OBJ[activity_id]
  IN  IF act_obj.ACTIVITY_TYPE # GAME THEN TRUE
      ELSE IF \/ act_obj.association # "CMSA"
              \/ act_obj.age \notin {"U12", "U13"}
              \/ act_obj.tier # "T1"
      THEN TRUE
      ELSE IF activity_id \in DOMAIN Layout.SPECIAL_BOOKINGS
      THEN slot_id = Layout.SPECIAL_BOOKINGS[activity_id]
      ELSE IF act_obj.age = "U12"
      THEN "CMSA U12T1S" \notin schedule.assignments[slot_id]
      ELSE "CMSA U13T1S" \notin schedule.assignments[slot_id]

check_city_constraints(schedule, assignment) ==
  LET activity_id == assignment[1]
      slot_id == assignment[2]
      activity_type == slot_id[1]
      passes == IF activity_type = GAME
                THEN /\ age_group_constraint(schedule, assignment)
                     /\ special_bookings_constraint(schedule, assignment)
                ELSE TRUE
  IN  IF Layout.ACTIVITY_ID_TO_OBJ[activity_id].division # None
      THEN passes /\ evening_slot_constraint(schedule, assignment)
      ELSE passes

check_constraints(schedule, assignment) ==
  /\ check_general_constraints(schedule, assignment)
  /\ check_city_constraints(schedule, assignment)

\* The failure counters of the class HardConstraints.
NoFails ==
  [generalFails |-> 0, cityFails |-> 0, gameMaxFails |-> 0,
   practiceMaxFails |-> 0, sameSlotFails |-> 0, notCompatibleFails |-> 0,
   partAssignFails |-> 0, unwantedFails |-> 0]

Count(b) == IF b THEN 1 ELSE 0

\* The counters after the capacity check of one call, which precedes the
\* unwanted check: what a call that raises leaves behind.
count_max_fails(f, schedule, assignment) ==
  IF assignment[2][1] = GAME
  THEN [f EXCEPT !.gameMaxFails = @ + Count(~game_max(schedule, assignment))]
  ELSE [f EXCEPT !.practiceMaxFails =
                    @ + Count(~practice_max(schedule, assignment))]

\* The counters after one call of check_constraints that returns.
count_fails(f, schedule, assignment) ==
  LET g == count_max_fails(f, schedule, assignment)
  IN  [g EXCEPT
         !.sameSlotFails = @ + Count(~gp_same_slot(schedule, assignment)),
         !.notCompatibleFails = @ + Count(~not_compatible(schedule, assignment)),
         !.partAssignFails = @ + Count(~part_assign(schedule, assignment)),
         !.unwantedFails = @ + Count(~unwanted(schedule, assignment)),
         !.generalFails =
            @ + Count(~check_general_constraints(schedule, assignment)),
         !.cityFails = @ + Count(~check_city_constraints(schedule, assignment))]

(***************************************************************************)
(* Constraints/SoftConstraints.py                                          *)
(***************************************************************************)
game_min(schedule, latest_assignment) ==
  LET slot_id == latest_assignment[2]
      activity_type == slot_id[1]
  IN  IF activity_type = PRACTICE THEN 0
      ELSE LET slot_obj == Layout.SLOT_ID_TO_OBJ[slot_id]
               penalty_included ==
                 Cardinality(schedule.assignments[slot_id]) < slot_obj.gamemin
           IN  IF penalty_included THEN -Layout.PEN_GAMEMIN ELSE 0

practice_min(schedule, latest_assignment) ==
  LET slot_id == latest_assignment[2]
      activity_type == slot_id[1]
  IN  IF activity_type = GAME THEN 0
      ELSE LET slot_obj == Layout.SLOT_ID_TO_OBJ[slot_id]
               penalty_included ==
                 Cardinality(schedule.assignments[slot_id])
                   < slot_obj.practicemin
           IN  IF penalty_included THEN -Layout.PEN_PRACTICEMIN ELSE 0

\* The sum of the pref_value of a set of (pref_slot_id, pref_value) pairs.
RECURSIVE SumValues(_)
SumValues(prefs) ==
  IF prefs = {} THEN 0
  ELSE LET one == CHOOSE x \in prefs : TRUE
       IN  one[2] + SumValues(prefs \ {one})

\* The reward of every preference of the activity, whatever its slot.
preference_any_slot(schedule, latest_assignment) ==
  LET activity_id == latest_assignment[1]
      prefs == IF activity_id \in DOMAIN Layout.PREFERENCES
               THEN Layout.PREFERENCES[activity_id] ELSE {}
  IN  -SumValues(prefs)

preference(schedule, latest_assignment) ==
  LET activity_id == latest_assignment[1]
      slot_id == latest_assignment[2]
      prefs == IF activity_id \in DOMAIN Layout.PREFERENCES
               THEN Layout.PREFERENCES[activity_id] ELSE {}
  IN  -SumValues({pr \in prefs : slot_id = pr[1]})

\* The penalty for every partner outside the slot, placed or not.
pair_counts_unplaced(schedule, latest_assignment) ==
  LET activity_id == latest_assignment[1]
      slot_id == latest_assignment[2]
  IN  IF activity_id \in DOMAIN Layout.PAIR
      THEN Layout.PEN_NOTPAIRED *
             Cardinality(
               {paired_activity \in Layout.PAIR[activity_id] :
                  paired_activity \notin schedule.assignments[slot_id]})
      ELSE 0

pair(schedule, latest_assignment) ==
  LET activity_id == latest_assignment[1]
      slot_id == latest_assignment[2]
  IN  IF activity_id \in DOMAIN Layout.PAIR
      THEN Layout.PEN_NOTPAIRED *
             Cardinality(
               {paired_activity \in Layout.PAIR[activity_id] :
                  /\ paired_activity \notin SeqToSet(schedule.remaining_games)
                  /\ paired_activity \notin SeqToSet(schedule.remaining_practices)
                  /\ paired_activity \notin schedule.assignments[slot_id]})
      ELSE 0

\* The penalty for every game of the slot that has the association and the
\* age group of the activity, whatever its tier.
check_city_constraint_any_tier(schedule, latest_assignment) ==
  LET activity_id == latest_assignment[1]
      slot_id == latest_assignment[2]
      activity_type == slot_id[1]
  IN  IF activity_type # GAME THEN 0
      ELSE LET activity_obj == Layout.GAME_ID_TO_OBJ[activity_id]
           IN  Layout.PEN_SECTION *
                 Cardinality(
                   {act_id \in schedule.assignments[slot_id] :
                      LET act_obj == Layout.GAME_ID_TO_OBJ[act_id]
                      IN  /\ activity_obj.age = act_obj.age
                          /\ activity_obj.association = act_obj.association})

check_city_constraint(schedule, latest_assignment) ==
  LET activity_id == latest_assignment[1]
      slot_id == latest_assignment[2]
      activity_type == slot_id[1]
  IN  IF activity_type # GAME THEN 0
      ELSE LET activity_obj == Layout.GAME_ID_TO_OBJ[activity_id]
           IN  Layout.PEN_SECTION *
                 Cardinality(
                   {act_id \in schedule.assignments[slot_id] :
                      LET act_obj == Layout.GAME_ID_TO_OBJ[act_id]
                      IN  /\ activity_obj.age = act_obj.age
                          /\ activity_obj.tier = act_obj.tier
                          /\ activity_obj.association = act_obj.association})

get_delta_eval(schedule, latest_assignment) ==
  LET delta_eval_minfilled_games ==
        game_min(schedule, latest_assignment) * Layout.W_MINFILLED
      delta_eval_minfilled_practices ==
        practice_min(schedule, latest_assignment) * Layout.W_MINFILLED
      delta_eval_pref ==
        preference(schedule, latest_assignment) * Layout.W_PREF
      delta_eval_pair == pair(schedule, latest_assignment) * Layout.W_PAIR
      delta_eval_secdiff ==
        check_city_constraint(schedule, latest_assignment) * Layout.W_SECDIFF
  IN  delta_eval_minfilled_games + delta_eval_minfilled_practices
        + delta_eval_pref + delta_eval_pair + delta_eval_secdiff

(***************************************************************************)
(* Search/AndTreeSearch.py: SearchModel                                    *)
(***************************************************************************)
RECURSIVE Flatten(_)
Flatten(lists) ==
  IF lists = <<>> THEN <<>> ELSE Head(lists) \o Flatten(Tail(lists))

\* The candidate assignments in the order div tries them.
proposals(schedule) ==
  LET for_game(game_id) ==
        IF game_id \in DOMAIN Layout.SPECIAL_BOOKINGS
        THEN << <<game_id, Layout.SPECIAL_BOOKINGS[game_id]>> >>
        ELSE [i \in 1..Len(schedule.vacant_game_slots) |->
                <<game_id, schedule.vacant_game_slots[i]>>]
      for_practice(practice_id) ==
        [i \in 1..Len(schedule.vacant_practice_slots) |->
           <<practice_id, schedule.vacant_practice_slots[i]>>]
  IN  Flatten([i \in 1..Len(schedule.remaining_games) |->
                 for_game(schedule.remaining_games[i])])
      \o Flatten([i \in 1..Len(schedule.remaining_practices) |->
                    for_practice(schedule.remaining_practices[i])])

\* The checks of div accepting a candidate only while no general failure
\* has been counted.
RECURSIVE run_checks_counter_dependent(_, _, _, _)
run_checks_counter_dependent(schedule, todo, f, accepted) ==
  IF todo = <<>>
  THEN [raised |-> FALSE, fails |-> f, assignments |-> accepted]
  ELSE LET assignment == Head(todo)
       IN  IF unwanted_raises(schedule, assignment)
           THEN [raised |-> TRUE,
                 fails |-> count_max_fails(f, schedule, assignment),
                 assignments |-> accepted]
           ELSE run_checks_counter_dependent(
                  schedule, Tail(todo), count_fails(f, schedule, assignment),
                  IF check_constraints(schedule, assignment) /\ f.generalFails = 0
                  THEN Append(accepted, assignment)
                  ELSE accepted)

\* The checks of div accepting every candidate whose check returns.
RECURSIVE run_checks_accept_all(_, _, _, _)
run_checks_accept_all(schedule, todo, f, accepted) ==
  IF todo = <<>>
  THEN [raised |-> FALSE, fails |-> f, assignments |-> accepted]
  ELSE LET assignment == Head(todo)
       IN  IF unwanted_raises(schedule, assignment)
           THEN [raised |-> TRUE,
                 fails |-> count_max_fails(f, schedule, assignment),
                 assignments |-> accepted]
           ELSE run_checks_accept_all(schedule, Tail(todo),
                                      count_fails(f, schedule, assignment),
                                      Append(accepted, assignment))

\* The checks of div over the candidates left to try: whether a check
\* raised, the failure counters, and the assignments accepted so far.
RECURSIVE run_checks(_, _, _, _)
run_checks(schedule, todo, f, accepted) ==
  IF todo = <<>>
  THEN [raised |-> FALSE, fails |-> f, assignments |-> accepted]
  ELSE LET assignment == Head(todo)
       IN  IF unwanted_raises(schedule, assignment)
           THEN [raised |-> TRUE,
                 fails |-> count_max_fails(f, schedule, assignment),
                 assignments |-> accepted]
           ELSE run_checks(schedule, Tail(todo),
                           count_fails(f, schedule, assignment),
                           IF check_constraints(schedule, assignment)
                           THEN Append(accepted, assignment)
                           ELSE accepted)

\* The first k assignments applied one after the other to one schedule.
RECURSIVE assign_all(_, _, _)
assign_all(schedule, assignments, k) ==
  IF k = 0 THEN schedule
  ELSE LET before == assign_all(schedule, assignments, k - 1)
           assign == assignments[k]
           scored == [before EXCEPT !.eval = @ + get_delta_eval(before, assign)]
           assigned == assign_activity(scored, assign[1], assign[2])
       IN  [assigned EXCEPT !.latest_assignment = assign]

\* generate_schedules taking one copy before the loop and assigning every
\* candidate to it.
generate_schedules_one_copy(schedule, assignments) ==
  [i \in 1..Len(assignments) |-> assign_all(get_copy(schedule), assignments, i)]

\* generate_schedules without the call of assign_activity.
generate_schedules_no_assign(schedule, assignments) ==
  [i \in 1..Len(assignments) |->
     LET assign == assignments[i]
         new_schedule == get_copy(schedule)
         scored == [new_schedule EXCEPT
                      !.eval = @ + get_delta_eval(new_schedule, assign)]
     IN  [scored EXCEPT !.latest_assignment = assign]]

generate_schedules(schedule, assignments) ==
  [i \in 1..Len(assignments) |->
     LET assign == assignments[i]
         new_schedule == get_copy(schedule)
         scored == [new_schedule EXCEPT
                      !.eval = @ + get_delta_eval(new_schedule, assign)]
         assigned == assign_activity(scored, assign[1], assign[2])
     IN  [assigned EXCEPT !.latest_assignment = assign]]

\* SearchModel.div with the counters f: the child schedules, unless a
\* check raised.
div(schedule, f) ==
  LET checked == run_checks(schedule, proposals(schedule), f, <<>>)
  IN  [raised |-> checked.raised, fails |-> checked.fails,
       schedules |-> IF checked.raised THEN <<>>
                     ELSE generate_schedules(schedule, checked.assignments)]

(***************************************************************************)
(* Search/AndTreeSearch.py: Node and Tree.  A node is a record; a          *)
(* reference to a node is its position in nodes.  opt is None, float(-inf) *)
(* or a number.                                                            *)
(***************************************************************************)
NoneOpt == [kind |-> "None", value |-> 0]

MinusInf == [kind |-> "-inf", value |-> 0]

Number(v) == [kind |-> "number", value |-> v]

\* Node.eval
eval(pr) == pr.eval + get_delta_eval(pr, pr.latest_assignment)

compute_opt(pr) ==
  LET latest_id == pr.latest_assignment[1]
      latest_slot_id == pr.latest_assignment[2]
  IN  IF /\ latest_id \in DOMAIN Layout.PARTASSIGN
         /\ latest_slot_id = Layout.PARTASSIGN[latest_id]
      THEN MinusInf
      ELSE IF /\ latest_id \in DOMAIN Layout.SPECIAL_BOOKINGS
              /\ latest_slot_id = Layout.SPECIAL_BOOKINGS[latest_id]
      THEN MinusInf
      ELSE Number(eval(pr))

\* Node(parent, pr, sol)
Node(parent, pr, sol) ==
  [parent |-> parent, pr |-> pr, sol |-> sol, children |-> <<>>,
   opt |-> IF parent # NoneNode THEN compute_opt(pr) ELSE NoneOpt]

\* Tree(): the root node over the empty schedule.
Tree == <<Node(NoneNode, Schedule, FALSE)>>

\* Tree.expand listing every child twice in parent_node.children.
expand_listing_twice(ns, parent_node, schedules) ==
  LET first == Len(ns)
      grown == ns \o [i \in 1..Len(schedules) |->
                        Node(parent_node, schedules[i], FALSE)]
      kids == [i \in 1..Len(schedules) |-> first + i]
  IN  [grown EXCEPT ![parent_node].children = @ \o kids \o kids]

\* Tree.expand given the schedules of div: the children are appended to
\* the tree and to parent_node.children in the order of the schedules.
expand(ns, parent_node, schedules) ==
  LET first == Len(ns)
      grown == ns \o [i \in 1..Len(schedules) |->
                        Node(parent_node, schedules[i], FALSE)]
  IN  [grown EXCEPT ![parent_node].children =
         @ \o [i \in 1..Len(schedules) |-> first + i]]

\* A leaf test that looks at the practices only.
is_complete_practices_only(pr) == Len(pr.remaining_practices) = 0

\* A leaf test that looks at the games only.
is_complete_games_only(pr) == Len(pr.remaining_games) = 0

\* The leaf test of check_sol on a schedule.
is_complete(pr) ==
  Len(pr.remaining_games) = 0 /\ Len(pr.remaining_practices) = 0

\* Node.check_sol on node n, with the calls it makes on the ancestors;
\* leaves counts the is_leaf calls that found a leaf.
RECURSIVE check_sol(_, _, _)
check_sol(ns, n, leaves) ==
  IF ns[n].parent = NoneNode THEN [nodes |-> ns, leaves |-> leaves]
  ELSE IF Len(ns[n].children) # 0
  THEN IF \A i \in 1..Len(ns[n].children) : ns[ns[n].children[i]].sol
       THEN check_sol([ns EXCEPT ![n].sol = TRUE], ns[n].parent, leaves)
       ELSE [nodes |-> ns, leaves |-> leaves]
  ELSE IF is_complete(ns[n].pr)
       THEN check_sol([ns EXCEPT ![n].sol = TRUE], ns[n].parent, leaves + 1)
       ELSE [nodes |-> ns, leaves |-> leaves + 1]

\* x.opt < y.opt as Python orders float(-inf) and numbers
opt_less(x, y) ==
  \/ x.kind = "-inf" /\ y.kind = "number"
  \/ x.kind = "number" /\ y.kind = "number" /\ x.value < y.value

\* A descending sort that puts a child before the earlier children of
\* equal opt.
RECURSIVE sort_reverse_unstable(_, _)
sort_reverse_unstable(ns, children) ==
  IF children = <<>> THEN <<>>
  ELSE LET rest == sort_reverse_unstable(ns, SubSeq(children, 1, Len(children) - 1))
           x == children[Len(children)]
           ahead == {i \in 1..Len(rest) :
                       opt_less(ns[x].opt, ns[rest[i]].opt)}
           k == IF ahead = {} THEN 0
                ELSE CHOOSE i \in ahead : \A j \in ahead : j <= i
       IN  SubSeq(rest, 1, k) \o <<x>> \o SubSeq(rest, k + 1, Len(rest))

\* children.sort(key=opt, reverse=True): descending, and stable, so that
\* children of equal opt keep their order.
RECURSIVE sort_reverse(_, _)
sort_reverse(ns, children) ==
  IF children = <<>> THEN <<>>
  ELSE LET rest == sort_reverse(ns, SubSeq(children, 1, Len(children) - 1))
           x == children[Len(children)]
           \* x goes after every element that does not sort below it
           ahead == {i \in 1..Len(rest) :
                       ~opt_less(ns[rest[i]].opt, ns[x].opt)}
           k == IF ahead = {} THEN 0
                ELSE CHOOSE i \in ahead : \A j \in ahead : j <= i
       IN  SubSeq(rest, 1, k) \o <<x>> \o SubSeq(rest, k + 1, Len(rest))

fleaf(ns, parent_node) ==
  [ns EXCEPT ![parent_node].children = sort_reverse(ns, @)]

(***************************************************************************)
(* ScheduleMaker.py                                                        *)
(***************************************************************************)
RECURSIVE Sum(_, _)
Sum(f, S) ==
  IF S = {} THEN 0
  ELSE CHOOSE total \in {f[x] + Sum(f, S \ {x}) : x \in {CHOOSE y \in S : TRUE}} :
         TRUE

\* The precheck without the two extra games it allows.
detect_solvable_no_allowance ==
  LET total_gamemax ==
        Sum([id \in Layout.GAME_SLOT_IDS |-> Layout.SLOT_ID_TO_OBJ[id].gamemax],
            Layout.GAME_SLOT_IDS)
      total_practicemax ==
        Sum([id \in Layout.PRACTICE_SLOT_IDS |->
               Layout.SLOT_ID_TO_OBJ[id].practicemax],
            Layout.PRACTICE_SLOT_IDS)
  IN  /\ ~(Cardinality(Layout.PRACTICE_IDS) > total_practicemax)
      /\ ~(Cardinality(Layout.GAME_IDS) > total_gamemax)

detect_solvable ==
  LET total_gamemax ==
        Sum([id \in Layout.GAME_SLOT_IDS |-> Layout.SLOT_ID_TO_OBJ[id].gamemax],
            Layout.GAME_SLOT_IDS)
      total_practicemax ==
        Sum([id \in Layout.PRACTICE_SLOT_IDS |->
               Layout.SLOT_ID_TO_OBJ[id].practicemax],
            Layout.PRACTICE_SLOT_IDS)
      num_games == Cardinality(Layout.GAME_IDS)
      num_practices == Cardinality(Layout.PRACTICE_IDS)
  IN  IF num_practices > total_practicemax THEN FALSE
      ELSE IF num_games > total_gamemax + 2 THEN FALSE
      ELSE TRUE

\* A test that lets only the first solved node become current_best.
improves_first_only(ns, n, best) == best = NoneNode

\* A test that also lets a node of equal eval replace current_best.
improves_or_ties(ns, n, best) ==
  best = NoneNode \/ ns[n].pr.eval <= ns[best].pr.eval

\* The test that lets the popped node replace current_best.
improves(ns, n, best) ==
  best = NoneNode \/ ns[n].pr.eval < ns[best].pr.eval

\* The state after Layout is loaded and ScheduleMaker.initialize() has run.
Init ==
  /\ \E i \in Instances : Layout = LayoutOf[i]
  /\ pc = "start"
  /\ nodes = Tree
  /\ stack = <<1>>
  /\ current_best = NoneNode
  /\ node = NoneNode
  /\ result = NoneNode
  /\ fails = NoFails
  /\ leaves_encountered = 0
  /\ best_log = <<>>

\* search() up to the loop: the solvability precheck.
SearchStart ==
  /\ pc = "start"
  /\ IF detect_solvable
     THEN pc' = "loop" /\ result' = result
     ELSE pc' = "done" /\ result' = NoneNode
  /\ UNCHANGED <<Layout, nodes, stack, current_best, node, fails,
                 leaves_encountered, best_log>>

\* One iteration of the loop whose checks all return: pop, expand,
\* check_sol, the update of current_best, fleaf, the pushes.
SearchStep ==
  /\ pc = "loop"
  /\ Len(stack) > 0
  /\ LET n == stack[Len(stack)]
         d == div(nodes[n].pr, fails)
         expanded == expand(nodes, n, d.schedules)
         checked == check_sol(expanded, n, leaves_encountered)
         best == IF checked.nodes[n].sol /\ improves(checked.nodes, n, current_best)
                 THEN n ELSE current_best
         sorted == IF Len(checked.nodes[n].children) > 0
                   THEN fleaf(checked.nodes, n) ELSE checked.nodes
     IN  /\ ~d.raised
         /\ node' = n
         /\ fails' = d.fails
         /\ nodes' = sorted
         /\ leaves_encountered' = checked.leaves
         /\ current_best' = best
         /\ best_log' = IF best # current_best THEN Append(best_log, best)
                        ELSE best_log
         /\ stack' = SubSeq(stack, 1, Len(stack) - 1) \o sorted[n].children
  /\ UNCHANGED <<Layout, pc, result>>

\* An iteration in which a hard-constraint check raises: the exception
\* leaves search() with the node popped and nothing else done.
SearchRaise ==
  /\ pc = "loop"
  /\ Len(stack) > 0
  /\ LET n == stack[Len(stack)]
         d == div(nodes[n].pr, fails)
     IN  /\ d.raised
         /\ node' = n
         /\ fails' = d.fails
         /\ stack' = SubSeq(stack, 1, Len(stack) - 1)
  /\ pc' = "raised"
  /\ UNCHANGED <<Layout, nodes, current_best, result, leaves_encountered,
                 best_log>>

\* The loop ends on the empty stack and search() returns current_best.
SearchReturn ==
  /\ pc = "loop"
  /\ Len(stack) = 0
  /\ pc' = "done"
  /\ result' = current_best
  /\ UNCHANGED <<Layout, nodes, stack, current_best, node, fails,
                 leaves_encountered, best_log>>

Next == SearchStart \/ SearchStep \/ SearchRaise \/ SearchReturn

Spec == Init /\ [][Next]_vars

\* The condition under which the loop of search() runs one more iteration:
\* one of SearchStep and SearchRaise can be taken exactly then, since div
\* either raises or returns and the pop changes the stack.
LoopRuns == pc = "loop" /\ Len(stack) > 0

\* search() is one thread running without interruption: a step that can be
\* taken is taken.  For the iteration of the loop this is weak fairness of
\* SearchStep \/ SearchRaise, written with its enabling condition LoopRuns.
FairSpec ==
  /\ Spec
  /\ WF_vars(SearchStart)
  /\ WF_vars(SearchReturn)
  /\ ([]<>~LoopRuns \/ []<><<SearchStep \/ SearchRaise>>_vars)

(***************************************************************************)
(* IO/Printer.py.  The printed text is the sequence of its lines; a line   *)
(* is a string.                                                            *)
(***************************************************************************)
\* A time of the grid, kept as its characters, as one string.
RECURSIVE Text(_)
Text(chars) == IF chars = <<>> THEN "" ELSE Head(chars) \o Text(Tail(chars))

DigitChar(d) == <<"0", "1", "2", "3", "4", "5", "6", "7", "8", "9">>[d + 1]

\* str(n) of an int
RECURSIVE str(_)
str(n) ==
  IF n < 0 THEN "-" \o str(-n)
  ELSE IF n < 10 THEN DigitChar(n)
  ELSE str(n \div 10) \o DigitChar(n % 10)

\* " " * n, which is the empty string when n is not positive
RECURSIVE Spaces(_)
Spaces(n) == IF n <= 0 THEN "" ELSE " " \o Spaces(n - 1)

BUFFER_SPACE == 30

\* print_schedule writing the id without the spaces after it.
print_schedule_unpadded(schedule, keys) ==
  <<"Eval-value: " \o str(schedule.eval)>>
    \o [k \in 1..Len(keys) |->
          LET activity_id == keys[k]
              slot_id == schedule.slot_of_each_activity[activity_id]
          IN  activity_id \o ": " \o slot_id[2] \o ", " \o Text(slot_id[3])]

\* Printer.print_schedule; keys is the list of the keys of
\* schedule.slot_of_each_activity in the order the dictionary yields them,
\* the order of insertion.
print_schedule(schedule, keys) ==
  <<"Eval-value: " \o str(schedule.eval)>>
    \o [k \in 1..Len(keys) |->
          LET activity_id == keys[k]
              slot_id == schedule.slot_of_each_activity[activity_id]
              weekday == slot_id[2]
              start_time == slot_id[3]
              num_spaces == BUFFER_SPACE - Len(activity_id)
          IN  activity_id \o Spaces(num_spaces) \o ": "
                \o weekday \o ", " \o Text(start_time)]

(***************************************************************************)
(* Properties.  The schedules reachable through the expander are those of  *)
(* the nodes of the tree: no node is ever removed from it.                 *)
(***************************************************************************)
Schedules == {nodes[i].pr : i \in 1..Len(nodes)}

\* The slots in which a schedule holds an activity.
SlotsOf(pr, a) == {s \in Layout.ALL_SLOT_IDS : a \in pr.assignments[s]}

Placed(pr) == UNION {pr.assignments[s] : s \in Layout.ALL_SLOT_IDS}

CompleteSchedule(pr) ==
  /\ pr.remaining_games = <<>>
  /\ pr.remaining_practices = <<>>
  /\ \A a \in Layout.ACTIVITY_IDS : Cardinality(SlotsOf(pr, a)) = 1

\* C1: current_best is at every step None or a node whose schedule is
\* complete (both remaining lists empty, every game and practice of the
\* instance in exactly one slot), and so is the node search() returns.
C1_BestIsComplete ==
  /\ current_best # NoneNode => CompleteSchedule(nodes[current_best].pr)
  /\ pc = "done" /\ result # NoneNode => CompleteSchedule(nodes[result].pr)

\* search() has returned a node for an instance of three activities, after
\* meeting a leaf that could not be completed.
C1_Witness ==
  /\ pc = "done"
  /\ result # NoneNode
  /\ Cardinality(Layout.ACTIVITY_IDS) = 3
  /\ \E i \in 1..Len(nodes) :
        /\ nodes[i].children = <<>>
        /\ ~nodes[i].sol
        /\ nodes[i].pr.remaining_games = <<>>
        /\ nodes[i].pr.remaining_practices # <<>>

\* C2: no schedule of the tree holds more activities in a slot than the
\* slot's maximum (gamemax of a game slot, practicemax of a practice slot),
\* the slot a game keyed in SPECIAL_BOOKINGS is proposed into included.
C2_Capacity ==
  \A pr \in Schedules :
    \A s \in Layout.ALL_SLOT_IDS :
      Cardinality(pr.assignments[s]) <=
        IF s[1] = GAME THEN Layout.SLOT_ID_TO_OBJ[s].gamemax
        ELSE Layout.SLOT_ID_TO_OBJ[s].practicemax

\* A game keyed in SPECIAL_BOOKINGS was proposed into its slot when the slot
\* was full, and rejected; in another schedule it fills the slot together
\* with a practice.
C2_Witness ==
  /\ fails.practiceMaxFails > 0
  /\ \E pr \in Schedules :
       \E a \in Layout.GAME_IDS \cap DOMAIN Layout.SPECIAL_BOOKINGS :
         LET s == Layout.SPECIAL_BOOKINGS[a]
         IN  /\ a \in pr.assignments[s]
             /\ Cardinality(pr.assignments[s]) = Layout.SLOT_ID_TO_OBJ[s].practicemax
             /\ pr.assignments[s] \cap Layout.PRACTICE_IDS # {}
  /\ \E pr \in Schedules :
       \E a \in SeqToSet(pr.remaining_games) \cap DOMAIN Layout.SPECIAL_BOOKINGS :
         LET s == Layout.SPECIAL_BOOKINGS[a]
         IN  /\ Cardinality(pr.assignments[s]) = Layout.SLOT_ID_TO_OBJ[s].practicemax
             /\ s \notin SeqToSet(pr.vacant_practice_slots)

\* C3: in every schedule of the tree, a placed activity that is a key of
\* PARTASSIGN sits in the slot PARTASSIGN names for it and in no other.
C3_PartAssign ==
  \A pr \in Schedules :
    \A a \in Placed(pr) \cap DOMAIN Layout.PARTASSIGN :
      /\ SlotsOf(pr, a) = {Layout.PARTASSIGN[a]}
      /\ pr.slot_of_each_activity[a] = Layout.PARTASSIGN[a]

\* A key of PARTASSIGN was placed by an expansion that had another vacant
\* slot to offer, and candidates were rejected by the rule.
C3_Witness ==
  /\ fails.partAssignFails > 0
  /\ \E i \in 1..Len(nodes) :
       /\ nodes[i].parent # NoneNode
       /\ nodes[i].pr.latest_assignment[1] \in DOMAIN Layout.PARTASSIGN
       /\ \E s \in SeqToSet(nodes[nodes[i].parent].pr.vacant_game_slots) :
            s # Layout.PARTASSIGN[nodes[i].pr.latest_assignment[1]]

\* C4: in every schedule of the tree, a placed activity that is a key of
\* SPECIAL_BOOKINGS, game or practice, sits in the slot SPECIAL_BOOKINGS
\* names for it and in no other.
C4_SpecialBookings ==
  \A pr \in Schedules :
    \A a \in Placed(pr) \cap DOMAIN Layout.SPECIAL_BOOKINGS :
      SlotsOf(pr, a) = {Layout.SPECIAL_BOOKINGS[a]}

\* C5: NOT_COMPATIBLE is symmetric, and in every schedule of the tree no
\* slot holds two activities a, b with b in NOT_COMPATIBLE[a].
C5_NotCompatible ==
  /\ \A a \in DOMAIN Layout.NOT_COMPATIBLE :
       \A b \in Layout.NOT_COMPATIBLE[a] : a \in Layout.NOT_COMPATIBLE[b]
  /\ \A pr \in Schedules :
       \A s \in Layout.ALL_SLOT_IDS :
         \A a \in pr.assignments[s] :
           pr.assignments[s] \cap Layout.NOT_COMPATIBLE[a] = {}

\* Two activities that are not compatible are both placed, the one named
\* second in the input placed first, and a candidate was rejected by the rule.
C5_Witness ==
  /\ fails.notCompatibleFails > 0
  /\ \E i \in 1..Len(nodes) :
       LET pr == nodes[i].pr
       IN  /\ nodes[i].parent # NoneNode
           /\ pr.remaining_games = <<>>
           /\ \E a \in Placed(pr) :
                /\ Layout.NOT_COMPATIBLE[a] \cap Placed(pr) # {}
                /\ a = pr.latest_assignment[1]
                /\ a = Layout.GAME_ID_ORDER[1]

\* Two slots share a weekday and their times intersect.
TimeOverlap(sa, sb) ==
  LET a == Layout.SLOT_ID_TO_OBJ[sa]
      b == Layout.SLOT_ID_TO_OBJ[sb]
  IN  /\ a.weekday = b.weekday
      /\ time_str_to_int(a.start_time) < time_str_to_int(b.end_time)
      /\ time_str_to_int(b.start_time) < time_str_to_int(a.end_time)

SameDivision(a, b) ==
  LET x == Layout.ACTIVITY_ID_TO_OBJ[a]
      y == Layout.ACTIVITY_ID_TO_OBJ[b]
  IN  /\ x.association = y.association
      /\ x.age = y.age
      /\ x.tier = y.tier
      /\ x.division = y.division

\* C6: in every schedule of the tree, two distinct placed activities of the
\* same (association, age, tier, division) that are not both practices are
\* not in slots that overlap in time on a weekday, the same slot included.
C6_GamePracticeOverlap ==
  \A pr \in Schedules :
    \A a \in Placed(pr) :
      \A b \in Placed(pr) \ {a} :
        (/\ SameDivision(a, b)
         /\ ~(a \in Layout.PRACTICE_IDS /\ b \in Layout.PRACTICE_IDS))
        => \A sa \in SlotsOf(pr, a) : \A sb \in SlotsOf(pr, b) :
             ~TimeOverlap(sa, sb)

\* A game and two practices of one division are all placed, the two
\* practices in one slot, and candidates were rejected by the rule.
C6_Witness ==
  /\ fails.sameSlotFails > 0
  /\ \E pr \in Schedules :
       \E g \in Layout.GAME_IDS \cap Placed(pr) :
         \E p \in Layout.PRACTICE_IDS \cap Placed(pr) :
           \E q \in (Layout.PRACTICE_IDS \cap Placed(pr)) \ {p} :
             /\ SameDivision(g, p)
             /\ SameDivision(p, q)
             /\ SlotsOf(pr, p) = SlotsOf(pr, q)

C8_EveningRule ==
  \A pr \in Schedules :
    \A a \in Placed(pr) :
      Layout.ACTIVITY_ID_TO_OBJ[a].division[1] = "9"
      => \A s \in SlotsOf(pr, a) :
           time_str_to_int(Layout.SLOT_ID_TO_OBJ[s].start_time) >= 18 * 60

\* One schedule holds a game and a practice of divisions that begin with 9
\* in evening slots, and an activity of division 19 and one without a
\* division in slots that start before 18:00.
C8_Witness ==
  \E pr \in Schedules :
    LET early(a) ==
          \E s \in SlotsOf(pr, a) :
            time_str_to_int(Layout.SLOT_ID_TO_OBJ[s].start_time) < 18 * 60
    IN  /\ \E a \in Placed(pr) \cap Layout.GAME_IDS :
             Layout.ACTIVITY_ID_TO_OBJ[a].division[1] = "9"
        /\ \E a \in Placed(pr) \cap Layout.PRACTICE_IDS :
             Layout.ACTIVITY_ID_TO_OBJ[a].division[1] = "9"
        /\ \E a \in Placed(pr) :
             Layout.ACTIVITY_ID_TO_OBJ[a].division = <<"1", "9">> /\ early(a)
        /\ \E a \in Placed(pr) :
             Layout.ACTIVITY_ID_TO_OBJ[a].division = None /\ early(a)

\* The slots UNWANTED forbids to an activity: none for an activity that
\* UNWANTED does not name.
UnwantedOf(a) ==
  IF a \in DOMAIN Layout.UNWANTED THEN Layout.UNWANTED[a] ELSE {}

\* C9: in every schedule of the tree, no placed activity a sits in a slot of
\* UNWANTED[a]; and the check unwanted rejects a candidate (a, s) exactly
\* when s is in UNWANTED[a].
C9_Unwanted ==
  /\ \A pr \in Schedules :
       \A a \in Placed(pr) : SlotsOf(pr, a) \cap UnwantedOf(a) = {}
  /\ \A pr \in Schedules :
       \A a \in Layout.ACTIVITY_IDS :
         \A s \in Layout.ALL_SLOT_IDS :
           (/\ ~unwanted_raises(pr, <<a, s>>)
            /\ ~unwanted(pr, <<a, s>>))
           <=> s \in UnwantedOf(a)

\* An activity with an unwanted slot that was vacant is placed elsewhere,
\* and a candidate was rejected by the rule.
C9_Witness ==
  /\ fails.unwantedFails > 0
  /\ \E i \in 1..Len(nodes) :
       /\ nodes[i].parent # NoneNode
       /\ LET a == nodes[i].pr.latest_assignment[1]
              before == nodes[nodes[i].parent].pr
          IN  UnwantedOf(a) \cap SeqToSet(before.vacant_game_slots) # {}

\* C10: current_best is replaced only by a node whose schedule is complete
\* and, when there was a best before, whose eval is strictly smaller than
\* the eval of the best it replaces; so the eval of current_best never
\* increases and a node of equal eval never replaces the best.
C10_BestNeverRegresses ==
  [][current_best' # current_best =>
       /\ current_best' # NoneNode
       /\ CompleteSchedule(nodes'[current_best'].pr)
       /\ current_best # NoneNode =>
            nodes'[current_best'].pr.eval < nodes[current_best].pr.eval]_vars

\* current_best has been replaced by a strictly better node, and a complete
\* node of the same eval as the best, met after it, has not replaced it.
C10_Witness ==
  /\ Len(best_log) >= 2
  /\ current_best # NoneNode
  /\ \E i \in 1..Len(nodes) :
       /\ i # current_best
       /\ nodes[i].sol
       /\ nodes[i].children = <<>>
       /\ nodes[i].pr.eval = nodes[current_best].pr.eval

\* The deltas the evaluator returned for the assignments of node i, summed
\* in placement order from the empty schedule.
RECURSIVE DeltaSum(_)
DeltaSum(i) ==
  IF nodes[i].parent = NoneNode THEN 0
  ELSE DeltaSum(nodes[i].parent)
         + get_delta_eval(nodes[nodes[i].parent].pr,
                          nodes[i].pr.latest_assignment)

\* S1 over the final assignments: a slot is charged -PEN * W_MINFILLED once
\* for each population 1..n it went through that was still below its min.
S1_FromScratch(pr) ==
  Sum([s \in Layout.ALL_SLOT_IDS |->
         LET obj == Layout.SLOT_ID_TO_OBJ[s]
             min == IF s[1] = GAME THEN obj.gamemin ELSE obj.practicemin
             pen == IF s[1] = GAME THEN Layout.PEN_GAMEMIN
                    ELSE Layout.PEN_PRACTICEMIN
             below == {k \in 1..Cardinality(pr.assignments[s]) : k < min}
         IN  (-pen) * Layout.W_MINFILLED * Cardinality(below)],
      Layout.ALL_SLOT_IDS)

\* S2: -v * W_PREF for every preference (s, v) of an activity placed in s.
S2_FromScratch(pr) ==
  Sum([a \in Placed(pr) |->
         IF a \in DOMAIN Layout.PREFERENCES
         THEN (-SumValues({p \in Layout.PREFERENCES[a] : p[1] \in SlotsOf(pr, a)}))
                * Layout.W_PREF
         ELSE 0],
      Placed(pr))

\* S3: PEN_NOTPAIRED * W_PAIR once for every pair placed in different slots.
S3_FromScratch(pr) ==
  Layout.PEN_NOTPAIRED * Layout.W_PAIR *
    Cardinality({ab \in SUBSET Placed(pr) :
                   /\ Cardinality(ab) = 2
                   /\ \E a \in ab : \E b \in ab \ {a} :
                        /\ a \in DOMAIN Layout.PAIR
                        /\ b \in Layout.PAIR[a]
                        /\ SlotsOf(pr, a) # SlotsOf(pr, b)})

\* S4: PEN_SECTION * W_SECDIFF once for every two games of one game slot
\* with the same (association, age, tier).
S4_FromScratch(pr) ==
  Layout.PEN_SECTION * Layout.W_SECDIFF *
    Cardinality({ab \in SUBSET (Placed(pr) \cap Layout.GAME_IDS) :
                   /\ Cardinality(ab) = 2
                   /\ \E s \in Layout.GAME_SLOT_IDS : ab \subseteq pr.assignments[s]
                   /\ \A a \in ab : \A b \in ab :
                        /\ Layout.GAME_ID_TO_OBJ[a].age = Layout.GAME_ID_TO_OBJ[b].age
                        /\ Layout.GAME_ID_TO_OBJ[a].tier = Layout.GAME_ID_TO_OBJ[b].tier
                        /\ Layout.GAME_ID_TO_OBJ[a].association
                             = Layout.GAME_ID_TO_OBJ[b].association})

FromScratch(pr) ==
  S1_FromScratch(pr) + S2_FromScratch(pr) + S3_FromScratch(pr)
    + S4_FromScratch(pr)

\* C11: the eval stored in every schedule of the tree equals the sum of the
\* evaluator's deltas in placement order, and equals the penalty recomputed
\* by S1-S4 from the final assignments.
C11_DeltaEquivalence ==
  \A i \in 1..Len(nodes) :
    /\ nodes[i].pr.eval = DeltaSum(i)
    /\ nodes[i].pr.eval = FromScratch(nodes[i].pr)

\* The first half of C11 alone.
EvalIsDeltaSum == \A i \in 1..Len(nodes) : nodes[i].pr.eval = DeltaSum(i)

\* The second half of C11 for the terms S2, S3 and S4.
EvalFromScratchBesidesS1 ==
  \A i \in 1..Len(nodes) :
    Layout.W_MINFILLED = 0 => nodes[i].pr.eval = FromScratch(nodes[i].pr)

TotalGameMax ==
  Sum([s \in Layout.GAME_SLOT_IDS |-> Layout.SLOT_ID_TO_OBJ[s].gamemax],
      Layout.GAME_SLOT_IDS)

TotalPracticeMax ==
  Sum([s \in Layout.PRACTICE_SLOT_IDS |-> Layout.SLOT_ID_TO_OBJ[s].practicemax],
      Layout.PRACTICE_SLOT_IDS)

TooManyPractices == Cardinality(Layout.PRACTICE_IDS) > TotalPracticeMax

TooManyGames == Cardinality(Layout.GAME_IDS) > TotalGameMax + 2

\* search() has declared the instance infeasible: it returned None with the
\* root still on the stack, nothing popped, expanded or checked.
DeclaredInfeasible ==
  /\ pc = "done"
  /\ result = NoneNode
  /\ node = NoneNode
  /\ stack = <<1>>
  /\ Len(nodes) = 1
  /\ fails = NoFails
  /\ leaves_encountered = 0

\* C12: search() declares the instance infeasible exactly when there are
\* more practices than the practice slots' practicemax in total or more
\* games than the game slots' gamemax in total plus 2; it then returns None
\* without popping or expanding a node, and otherwise enters the loop.
C12_Precheck ==
  /\ (TooManyPractices \/ TooManyGames)
       => (pc \in {"start", "done"} /\ (pc = "done" => DeclaredInfeasible))
  /\ ~(TooManyPractices \/ TooManyGames)
       => (pc # "start" => (~DeclaredInfeasible /\ (pc = "done" => node # NoneNode)))

\* An instance with three games and no game capacity was declared
\* infeasible on the games bound alone.
C12_Witness ==
  /\ DeclaredInfeasible
  /\ TooManyGames
  /\ ~TooManyPractices
  /\ Cardinality(Layout.GAME_IDS) = TotalGameMax + 3

NoCompleteInTree == \A i \in 1..Len(nodes) : ~CompleteSchedule(nodes[i].pr)

C14_CompleteIsCompared ==
  /\ (pc = "done" /\ node # NoneNode /\ result = NoneNode) => NoCompleteInTree
  /\ (pc = "done" /\ Layout.ACTIVITY_IDS = {})
       => (/\ result # NoneNode
           /\ nodes[result].parent = NoneNode
           /\ nodes[result].pr.eval = 0)

\* The first half of C14 for the nodes other than the root.
CompleteChildIsCompared ==
  (pc = "done" /\ node # NoneNode /\ result = NoneNode)
    => \A i \in 2..Len(nodes) : ~CompleteSchedule(nodes[i].pr)

RECURSIVE Depth(_)
Depth(i) == IF nodes[i].parent = NoneNode THEN 0 ELSE 1 + Depth(nodes[i].parent)

RemainingCount(pr) == Len(pr.remaining_games) + Len(pr.remaining_practices)

\* Every child schedule has one remaining activity fewer than its parent,
\* and no node lies deeper than the number of activities.
DepthBounded ==
  \A i \in 1..Len(nodes) :
    /\ nodes[i].parent # NoneNode
         => RemainingCount(nodes[i].pr)
              = RemainingCount(nodes[nodes[i].parent].pr) - 1
    /\ Depth(i) <= Cardinality(Layout.ACTIVITY_IDS)

Position(seq, x) == CHOOSE k \in 1..Len(seq) : seq[k] = x

\* The children of the popped node n after the iteration: they are the
\* nodes created by it, created in the order in which div enumerates the
\* candidates, and listed by descending opt with equal opt in the order
\* of creation.
ChildrenInOrder(n) ==
  LET kids == nodes'[n].children
      props == proposals(nodes[n].pr)
  IN  /\ Len(kids) = Len(nodes') - Len(nodes)
      /\ SeqToSet(kids) = (Len(nodes) + 1)..Len(nodes')
      /\ \A a, b \in (Len(nodes) + 1)..Len(nodes') :
           a < b => Position(props, nodes'[a].pr.latest_assignment)
                      < Position(props, nodes'[b].pr.latest_assignment)
      /\ \A i, j \in 1..Len(kids) :
           i < j => /\ ~opt_less(nodes'[kids[i]].opt, nodes'[kids[j]].opt)
                    /\ nodes'[kids[i]].opt = nodes'[kids[j]].opt
                         => kids[i] < kids[j]

\* One iteration as the state before it fixes it: the node popped is the
\* top of the stack, its children are pushed in their sorted order, and
\* current_best changes to the popped node or not at all.
IterationIsFixed ==
  LoopRuns =>
    /\ node' = stack[Len(stack)]
    /\ pc' = "loop" =>
         /\ ChildrenInOrder(node')
         /\ stack' = SubSeq(stack, 1, Len(stack) - 1) \o nodes'[node'].children
         /\ current_best' \in {current_best, node'}
         /\ best_log' = IF current_best' # current_best
                        THEN Append(best_log, node') ELSE best_log

\* C16: a run of search() is fixed by the instance and the enumeration
\* order: every step pops the top of the stack, creates the children in
\* the order of the candidates, pushes them by descending opt with ties
\* in the order of creation (stable sort), changes current_best only to
\* the popped node, and the return hands back current_best.
C16_Deterministic ==
  [][/\ IterationIsFixed
     /\ (pc = "loop" /\ pc' = "done") => result' = current_best]_vars

\* A popped node has two children of equal opt and a third of another opt.
C16_Witness ==
  \E n \in 1..Len(nodes) :
    LET kids == nodes[n].children
    IN  \E i, j, k \in 1..Len(kids) :
          /\ i < j
          /\ nodes[kids[i]].opt = nodes[kids[j]].opt
          /\ nodes[kids[k]].opt # nodes[kids[i]].opt

\* The values v of the preferences (s, v) of activity a, added up.
PrefValue(a, s) ==
  LET prefs == IF a \in DOMAIN Layout.PREFERENCES
               THEN {p \in Layout.PREFERENCES[a] : p[1] = s} ELSE {}
  IN  Cardinality(UNION {{<<p, k>> : k \in 1..p[2]} : p \in prefs})

\* Only the preferences are weighted.
OnlyPreferences ==
  Layout.W_MINFILLED = 0 /\ Layout.W_PAIR = 0 /\ Layout.W_SECDIFF = 0

\* The example: one game, the two game slots MO 8:00 and MO 9:00 open to
\* it, the preference (MO 9:00, 5), W_PREF = 1 and no other weight.
PrefExample ==
  /\ Layout.GAME_IDS = {"G1"} /\ Layout.PRACTICE_IDS = {}
  /\ Layout.PREFERENCES = ("G1" :> {<< <<GAME, MO, T_9>>, 5 >>})
  /\ Layout.W_PREF = 1 /\ OnlyPreferences
  /\ Layout.SLOT_ID_TO_OBJ[<<GAME, MO, T_8>>].gamemax >= 1
  /\ Layout.SLOT_ID_TO_OBJ[<<GAME, MO, T_9>>].gamemax >= 1

\* C17: placing activity a in slot s lowers eval by v * W_PREF for every
\* preference (s, v) of a and by nothing for its preferences of other
\* slots; in the example search() returns the game at MO 9:00, eval -5.
C17_PreferenceReward ==
  /\ \A i \in 2..Len(nodes) :
       LET la == nodes[i].pr.latest_assignment
           before == nodes[nodes[i].parent].pr
       IN  /\ preference(before, la) * Layout.W_PREF
                = -(Layout.W_PREF * PrefValue(la[1], la[2]))
           /\ OnlyPreferences
                => nodes[i].pr.eval
                     = before.eval - Layout.W_PREF * PrefValue(la[1], la[2])
  /\ (pc = "done" /\ PrefExample)
       => /\ result # NoneNode
          /\ SlotsOf(nodes[result].pr, "G1") = {<<GAME, MO, T_9>>}
          /\ nodes[result].pr.eval = -5

\* The example has run: the game was tried at MO 8:00 with eval 0 and is
\* returned at MO 9:00 with eval -5.
C17_Witness ==
  /\ pc = "done" /\ PrefExample
  /\ result # NoneNode /\ nodes[result].pr.eval = -5
  /\ \E i \in 2..Len(nodes) :
       /\ nodes[i].pr.latest_assignment = <<"G1", <<GAME, MO, T_8>>>>
       /\ nodes[i].pr.eval = 0

\* The partners of activity a that the schedule holds in a slot other
\* than s.
PartnersElsewhere(pr, a, s) ==
  IF a \in DOMAIN Layout.PAIR
  THEN {b \in Layout.PAIR[a] : b \in Placed(pr) /\ s \notin SlotsOf(pr, b)}
  ELSE {}

\* Only the pairs are weighted.
OnlyPairs ==
  Layout.W_MINFILLED = 0 /\ Layout.W_PREF = 0 /\ Layout.W_SECDIFF = 0

\* The example: two paired games, two game slots of one place each,
\* PEN_NOTPAIRED = 10, W_PAIR = 1 and no other weight.
PairExample ==
  /\ Layout.GAME_IDS = {"G1", "G2"} /\ Layout.PRACTICE_IDS = {}
  /\ "G1" \in DOMAIN Layout.PAIR /\ "G2" \in Layout.PAIR["G1"]
  /\ Layout.PEN_NOTPAIRED = 10 /\ Layout.W_PAIR = 1 /\ OnlyPairs
  /\ {s \in Layout.GAME_SLOT_IDS : Layout.SLOT_ID_TO_OBJ[s].gamemax > 0}
       = {<<GAME, MO, T_8>>, <<GAME, MO, T_9>>}
  /\ Layout.SLOT_ID_TO_OBJ[<<GAME, MO, T_8>>].gamemax = 1
  /\ Layout.SLOT_ID_TO_OBJ[<<GAME, MO, T_9>>].gamemax = 1

\* C18: placing activity a in slot s adds PEN_NOTPAIRED * W_PAIR for each
\* partner of a already placed in another slot and nothing for a partner
\* that is unplaced or in s; so with only the pairs weighted a schedule's
\* eval charges each unordered pair held in different slots once, and in
\* the example the returned best has eval 10.
C18_PairPenalty ==
  /\ \A i \in 2..Len(nodes) :
       LET la == nodes[i].pr.latest_assignment
           before == nodes[nodes[i].parent].pr
       IN  pair(before, la) * Layout.W_PAIR
             = Layout.PEN_NOTPAIRED * Layout.W_PAIR
                 * Cardinality(PartnersElsewhere(before, la[1], la[2]))
  /\ OnlyPairs
       => \A i \in 1..Len(nodes) : nodes[i].pr.eval = S3_FromScratch(nodes[i].pr)
  /\ (pc = "done" /\ PairExample)
       => result # NoneNode /\ nodes[result].pr.eval = 10

\* The example has run and returned a schedule of eval 10 that holds the
\* two games in different slots.
C18_Witness ==
  /\ pc = "done" /\ PairExample
  /\ result # NoneNode /\ nodes[result].pr.eval = 10
  /\ SlotsOf(nodes[result].pr, "G1") # SlotsOf(nodes[result].pr, "G2")

\* The sentinel of an age group.
Sentinel(age) == IF age = "U12" THEN "CMSA U12T1S" ELSE "CMSA U13T1S"

\* The games of association CMSA, tier T1 and age U12 or U13 that are not
\* themselves keys of SPECIAL_BOOKINGS.
SentinelGames ==
  {g \in Layout.GAME_IDS \ DOMAIN Layout.SPECIAL_BOOKINGS :
     /\ Layout.GAME_ID_TO_OBJ[g].association = "CMSA"
     /\ Layout.GAME_ID_TO_OBJ[g].tier = "T1"
     /\ Layout.GAME_ID_TO_OBJ[g].age \in {"U12", "U13"}}

\* C19: in every schedule of the tree, a game of association CMSA, tier T1
\* and age U12 (U13) that is not a key of SPECIAL_BOOKINGS is neither in
\* the slot that holds the sentinel CMSA U12T1S (CMSA U13T1S) nor in a
\* slot that overlaps the slot SPECIAL_BOOKINGS names for the sentinel.
C19_Sentinel ==
  \A pr \in Schedules :
    \A g \in SentinelGames \cap Placed(pr) :
      \A s \in SlotsOf(pr, g) :
        LET sentinel == Sentinel(Layout.GAME_ID_TO_OBJ[g].age)
        IN  /\ sentinel \notin pr.assignments[s]
            /\ ~TimeOverlap(s, Layout.SPECIAL_BOOKINGS[sentinel])

\* The first half of C19: the game never shares a slot with its sentinel.
SentinelSlotNotShared ==
  \A pr \in Schedules :
    \A g \in SentinelGames \cap Placed(pr) :
      \A s \in SlotsOf(pr, g) :
        Sentinel(Layout.GAME_ID_TO_OBJ[g].age) \notin pr.assignments[s]

\* The second half of C19 read for the slot that holds the sentinel: the
\* game is in no slot that overlaps it.
SentinelHeldSlotNotOverlapped ==
  \A pr \in Schedules :
    \A g \in SentinelGames \cap Placed(pr) :
      \A s \in SlotsOf(pr, g) :
        \A u \in SlotsOf(pr, Sentinel(Layout.GAME_ID_TO_OBJ[g].age)) :
          ~TimeOverlap(s, u)

\* The slots whose maximum is 0.
ZeroSlots == {s \in Layout.ALL_SLOT_IDS : slot_max(s) = 0}

\* C20: in every schedule of the tree a slot whose maximum is 0 fails the
\* capacity check for every activity, is in neither vacant list and holds
\* no activity.
C20_ZeroCapacity ==
  \A pr \in Schedules :
    \A s \in ZeroSlots :
      /\ \A a \in Layout.ACTIVITY_IDS :
           ~(game_max(pr, <<a, s>>) /\ practice_max(pr, <<a, s>>))
      /\ s \notin SeqToSet(pr.vacant_game_slots)
      /\ s \notin SeqToSet(pr.vacant_practice_slots)
      /\ pr.assignments[s] = {}

\* The node just popped had a candidate for a slot whose maximum is 0 (a
\* special booking, which is proposed without looking at the vacant lists).
C20_Witness ==
  /\ pc = "loop"
  /\ node # NoneNode
  /\ \E k \in 1..Len(proposals(nodes[node].pr)) :
       proposals(nodes[node].pr)[k][2] \in ZeroSlots

\* The fields of a schedule that a clone shares with its original.
CloneFields(pr) ==
  [assignments |-> pr.assignments,
   slot_of |-> pr.slot_of_each_activity,
   remaining_games |-> pr.remaining_games,
   remaining_practices |-> pr.remaining_practices,
   vacant_game_slots |-> pr.vacant_game_slots,
   vacant_practice_slots |-> pr.vacant_practice_slots,
   eval |-> pr.eval]

\* What generate_schedules does to a copy, done to the schedule itself.
AssignedInPlace(pr, assign) ==
  assign_activity([pr EXCEPT !.eval = @ + get_delta_eval(pr, assign)],
                  assign[1], assign[2])

RECURSIVE PlacementOrder(_)
PlacementOrder(i) ==
  IF nodes[i].parent = NoneNode THEN <<>>
  ELSE Append(PlacementOrder(nodes[i].parent), nodes[i].pr.latest_assignment[1])

\* The number a string of digits with an optional sign stands for.
RECURSIVE Value(_)
Value(s) ==
  IF Head(s) = "-" THEN -Value(Tail(s))
  ELSE IF Len(s) = 1 THEN DigitValue(s)
  ELSE 10 * Value(SubSeq(s, 1, Len(s) - 1)) + DigitValue(SubSeq(s, Len(s), Len(s)))

\* line is the output line of activity a held in slot s: the id, spaces up
\* to column 30, ": ", the weekday, ", " and the start time.
IsLineOf(line, a, s) ==
  /\ Len(line) = 30 + 2 + 2 + 2 + Len(s[3])
  /\ SubSeq(line, 1, Len(a)) = a
  /\ \A k \in (Len(a) + 1)..30 : SubSeq(line, k, k) = " "
  /\ SubSeq(line, 31, 32) = ": "
  /\ SubSeq(line, 33, 34) = s[2] /\ s[2] \in {"MO", "TU", "FR"}
  /\ SubSeq(line, 35, 36) = ", "
  /\ \A k \in 1..Len(s[3]) : SubSeq(line, 36 + k, 36 + k) = s[3][k]

\* C22: for every schedule of the tree whose ids have at most 30
\* characters, print_schedule emits the line "Eval-value: " followed by
\* the eval, then one line for each assigned activity and no other line,
\* the line of an activity being its id in a field of 30 columns, ": ",
\* the weekday, ", " and the start time of its slot; for a complete
\* schedule every activity of the instance has exactly one line.
C22_PrintSchedule ==
  \A i \in 1..Len(nodes) :
    LET pr == nodes[i].pr
        out == print_schedule(pr, PlacementOrder(i))
    IN  (\A a \in Layout.ACTIVITY_IDS : Len(a) <= 30) =>
          /\ SubSeq(out[1], 1, 12) = "Eval-value: "
          /\ Value(SubSeq(out[1], 13, Len(out[1]))) = pr.eval
          /\ Len(out) = 1 + Cardinality(Placed(pr))
          /\ \A a \in Placed(pr) :
               Cardinality({k \in 2..Len(out) :
                              \E s \in SlotsOf(pr, a) : IsLineOf(out[k], a, s)}) = 1
          /\ CompleteSchedule(pr) =>
               \A a \in Layout.ACTIVITY_IDS :
                 Cardinality({k \in 2..Len(out) :
                                SubSeq(out[k], 1, 30) = a \o Spaces(30 - Len(a))}) = 1

\* search() has returned a schedule of eval other than 0 that holds two
\* activities with ids of different lengths.
C22_Witness ==
  /\ pc = "done"
  /\ result # NoneNode
  /\ nodes[result].pr.eval # 0
  /\ \E a, b \in Placed(nodes[result].pr) : Len(a) < Len(b)

\* C23: the eval of every child is its parent's eval plus the evaluator's
\* value on the child's own schedule, the state after the assignment.
C23_DeltaAfterAssignment ==
  \A i \in 2..Len(nodes) :
    nodes[i].pr.eval
      = nodes[nodes[i].parent].pr.eval
          + get_delta_eval(nodes[i].pr, nodes[i].pr.latest_assignment)

\* What holds instead of C23: the delta is the evaluator's value on the
\* parent's schedule, the state before the assignment.
DeltaBeforeAssignment ==
  \A i \in 2..Len(nodes) :
    nodes[i].pr.eval
      = nodes[nodes[i].parent].pr.eval
          + get_delta_eval(nodes[nodes[i].parent].pr, nodes[i].pr.latest_assignment)

\* The minimum of a slot: gamemin of a game slot, practicemin of a
\* practice slot.
slot_min(s) ==
  IF s[1] = GAME THEN Layout.SLOT_ID_TO_OBJ[s].gamemin
  ELSE Layout.SLOT_ID_TO_OBJ[s].practicemin

\* The S1 terms of the delta of an assignment into slot s, given the
\* population of s that is compared with the minimum: the term of the
\* slot's kind is minus the penalty times W_MINFILLED when that population
\* is below the minimum and 0 otherwise, the other term is 0, and neither
\* is positive.
MinTermsFor(before, la, population) ==
  LET s == la[2]
      game_term == game_min(before, la) * Layout.W_MINFILLED
      practice_term == practice_min(before, la) * Layout.W_MINFILLED
      own == IF s[1] = GAME THEN game_term ELSE practice_term
      other == IF s[1] = GAME THEN practice_term ELSE game_term
      pen == IF s[1] = GAME THEN Layout.PEN_GAMEMIN ELSE Layout.PEN_PRACTICEMIN
  IN  /\ own = IF population < slot_min(s) THEN -(pen * Layout.W_MINFILLED) ELSE 0
      /\ other = 0
      /\ own <= 0

\* C24: for every child, the S1 terms of the delta that was added to its
\* eval follow the population of the slot after the placement.
C24_MinFilled ==
  \A i \in 2..Len(nodes) :
    LET la == nodes[i].pr.latest_assignment
    IN  MinTermsFor(nodes[nodes[i].parent].pr, la,
                    Cardinality(nodes[i].pr.assignments[la[2]]))

\* What holds instead of C24: the S1 terms follow the population of the
\* slot before the placement.
MinFilledBeforePlacement ==
  \A i \in 2..Len(nodes) :
    LET la == nodes[i].pr.latest_assignment
    IN  MinTermsFor(nodes[nodes[i].parent].pr, la,
                    Cardinality(nodes[nodes[i].parent].pr.assignments[la[2]]))

\* The section of a game: its association, age group and tier.
Section(g) ==
  LET obj == Layout.GAME_ID_TO_OBJ[g]
  IN  <<obj.association, obj.age, obj.tier>>

\* The games other than g that schedule pr holds in slot s and that have
\* the section of g.
SectionMates(pr, g, s) ==
  {h \in pr.assignments[s] \ {g} : h \in Layout.GAME_IDS /\ Section(h) = Section(g)}

\* Only the sections are weighted.
OnlySections ==
  Layout.W_MINFILLED = 0 /\ Layout.W_PREF = 0 /\ Layout.W_PAIR = 0

\* C25: for every child, the section term of the delta that was added to
\* its eval is PEN_SECTION * W_SECDIFF for each other game of the same
\* section that the child holds in the slot of its latest assignment when
\* that slot is a game slot, the placed game itself not counted, and 0 when
\* it is a practice slot; with only the sections weighted the child's eval
\* is its parent's eval plus that term.
C25_SectionTerm ==
  \A i \in 2..Len(nodes) :
    LET la == nodes[i].pr.latest_assignment
        before == nodes[nodes[i].parent].pr
        term == check_city_constraint(before, la) * Layout.W_SECDIFF
    IN  /\ term = IF la[2][1] = GAME
                  THEN Layout.PEN_SECTION * Layout.W_SECDIFF
                         * Cardinality(SectionMates(nodes[i].pr, la[1], la[2]))
                  ELSE 0
        /\ OnlySections => nodes[i].pr.eval = before.eval + term

\* A child placed a game beside one game of its section and one game of
\* another tier and its eval grew by PEN_SECTION * W_SECDIFF, which is
\* not zero.
C25_Witness ==
  \E i \in 2..Len(nodes) :
    LET la == nodes[i].pr.latest_assignment
    IN  /\ OnlySections /\ Layout.PEN_SECTION * Layout.W_SECDIFF > 0
        /\ la[2][1] = GAME
        /\ Cardinality(SectionMates(nodes[i].pr, la[1], la[2])) = 1
        /\ Cardinality(nodes[i].pr.assignments[la[2]]) = 3
        /\ nodes[i].pr.eval
             = nodes[nodes[i].parent].pr.eval
                 + Layout.PEN_SECTION * Layout.W_SECDIFF

\* The assignments that the expander proposes for schedule P: the booked
\* slot alone for a remaining game keyed in SPECIAL_BOOKINGS, every vacant
\* game slot for any other remaining game, every vacant practice slot for
\* a remaining practice.
Proposed(P) ==
  LET games == SeqToSet(P.remaining_games)
      booked == games \cap DOMAIN Layout.SPECIAL_BOOKINGS
  IN  {<<g, Layout.SPECIAL_BOOKINGS[g]>> : g \in booked}
        \cup {<<g, s>> : g \in games \ booked, s \in SeqToSet(P.vacant_game_slots)}
        \cup {<<p, s>> : p \in SeqToSet(P.remaining_practices),
                         s \in SeqToSet(P.vacant_practice_slots)}

\* The proposals that pass the hard-constraint check.
PassingProposals(P) == {as \in Proposed(P) : check_constraints(P, as)}

\* Schedule C is P plus the one assignment of activity a to slot s.
PlusOneAssignment(P, C, a, s) ==
  /\ a \notin Placed(P)
  /\ C.assignments = [t \in Layout.ALL_SLOT_IDS |->
                        IF t = s THEN P.assignments[t] \cup {a}
                        ELSE P.assignments[t]]
  /\ DOMAIN C.slot_of_each_activity = DOMAIN P.slot_of_each_activity \cup {a}
  /\ C.slot_of_each_activity[a] = s
  /\ \A b \in DOMAIN P.slot_of_each_activity :
       C.slot_of_each_activity[b] = P.slot_of_each_activity[b]
  /\ C.remaining_games = Remove(P.remaining_games, a)
  /\ C.remaining_practices = Remove(P.remaining_practices, a)
  /\ Len(C.remaining_games) + Len(C.remaining_practices)
       = Len(P.remaining_games) + Len(P.remaining_practices) - 1
  /\ C.latest_assignment = <<a, s>>

\* The children of node n are one for each passing proposal of n's
\* schedule, each the schedule plus that assignment.
ChildrenAreExact(n) ==
  LET P == nodes[n].pr
      kids == nodes[n].children
  IN  /\ {nodes[kids[k]].pr.latest_assignment : k \in 1..Len(kids)}
           = PassingProposals(P)
      /\ Len(kids) = Cardinality(PassingProposals(P))
      /\ \A k \in 1..Len(kids) :
           /\ nodes[kids[k]].parent = n
           /\ PlusOneAssignment(P, nodes[kids[k]].pr,
                                nodes[kids[k]].pr.latest_assignment[1],
                                nodes[kids[k]].pr.latest_assignment[2])

\* The nodes that the loop has expanded: the node popped last, unless its
\* checks raised, and every node that has children.
Expanded ==
  {n \in 1..Len(nodes) :
     \/ Len(nodes[n].children) > 0
     \/ n = node /\ pc # "raised"}

\* C26: the children of every expanded node are in one-to-one
\* correspondence with the proposals of its schedule that pass the
\* hard-constraint check, and each child is the schedule plus exactly that
\* assignment, recorded as its latest_assignment.
C26_ExpanderExact == \A n \in Expanded : ChildrenAreExact(n)

\* A node was expanded whose schedule has a remaining game keyed in
\* SPECIAL_BOOKINGS, a remaining game that is not and a remaining practice,
\* with a proposal that the check rejected and a child for each of the
\* others, the booked slot of the game among them.
C26_Witness ==
  \E n \in Expanded :
    LET P == nodes[n].pr
    IN  /\ \E g \in SeqToSet(P.remaining_games) \cap DOMAIN Layout.SPECIAL_BOOKINGS :
             <<g, Layout.SPECIAL_BOOKINGS[g]>> \in PassingProposals(P)
        /\ SeqToSet(P.remaining_games) \ DOMAIN Layout.SPECIAL_BOOKINGS # {}
        /\ P.remaining_practices # <<>>
        /\ PassingProposals(P) # Proposed(P)
        /\ Len(nodes[n].children) >= 2

\* The ancestors of node i in the tree.
RECURSIVE Ancestors(_)
Ancestors(i) ==
  IF nodes[i].parent = NoneNode THEN {}
  ELSE {nodes[i].parent} \cup Ancestors(nodes[i].parent)

\* No node holds an assignment that a descendant or a sibling made: the
\* activity a node placed last is still unplaced in each of its ancestors
\* and no other child of its parent holds it in that slot or holds an
\* activity beyond its own and the parent's.
NoAssignmentLeaks ==
  \A i \in 2..Len(nodes) :
    LET a == nodes[i].pr.latest_assignment[1]
        s == nodes[i].pr.latest_assignment[2]
    IN  /\ \A n \in Ancestors(i) :
             /\ a \notin Placed(nodes[n].pr)
             /\ a \notin DOMAIN nodes[n].pr.slot_of_each_activity
             /\ a \in SeqToSet(nodes[n].pr.remaining_games)
                        \cup SeqToSet(nodes[n].pr.remaining_practices)
        /\ \A j \in 2..Len(nodes) :
             (j # i /\ nodes[j].parent = nodes[i].parent)
               => /\ a \notin nodes[j].pr.assignments[s]
                  /\ nodes[j].pr.latest_assignment # <<a, s>>
                  /\ Placed(nodes[j].pr)
                       = Placed(nodes[nodes[j].parent].pr)
                           \cup {nodes[j].pr.latest_assignment[1]}

\* An iteration of the loop leaves the schedule of every node that was in
\* the tree as it was, the node it expands included.
SchedulesKept ==
  /\ Len(nodes') >= Len(nodes)
  /\ \A i \in 1..Len(nodes) :
       /\ nodes'[i].pr = nodes[i].pr
       /\ nodes'[i].parent = nodes[i].parent

\* C27: expanding a node leaves its schedule (assignments, slot_of,
\* remaining_*, vacant_*, eval, latest_assignment) as it was, and no
\* assignment made in a descendant or in a sibling shows in a node's or in
\* another sibling's schedule.
C27_ParentUnchanged == [][SchedulesKept]_vars /\ []NoAssignmentLeaks

\* A node that holds an activity has two children, one of which has been
\* expanded in turn, so that assignments were made in a sibling and in a
\* descendant after the node's own.
C27_Witness ==
  \E n \in 2..Len(nodes) :
    /\ Len(nodes[n].children) >= 2
    /\ \E k \in 1..Len(nodes[n].children) :
         Len(nodes[nodes[n].children[k]].children) > 0

\* Counters that are all positive and all different.
OtherFails ==
  [generalFails |-> 1, cityFails |-> 2, gameMaxFails |-> 3,
   practiceMaxFails |-> 4, sameSlotFails |-> 5, notCompatibleFails |-> 6,
   partAssignFails |-> 7, unwantedFails |-> 8]

\* One call of check_constraints(pr, as) made with the counters at f, as
\* div makes it: whether it accepted, and the counters after it.
OneCheck(pr, as, f) ==
  LET r == run_checks(pr, <<as>>, f, <<>>)
  IN  [raised |-> r.raised, accepted |-> r.assignments = <<as>>, fails |-> r.fails]

\* The result of a check that returns is the same whatever the counters
\* hold, and the call moves each counter by at most one and never back.
ResultIgnoresCounters ==
  \A pr \in Schedules :
    \A k \in 1..Len(proposals(pr)) :
      LET as == proposals(pr)[k]
          now == OneCheck(pr, as, fails)
          zero == OneCheck(pr, as, NoFails)
          other == OneCheck(pr, as, OtherFails)
      IN  /\ now.raised = zero.raised /\ now.raised = other.raised
          /\ ~now.raised =>
               /\ now.accepted = zero.accepted
               /\ now.accepted = other.accepted
               /\ now.accepted = check_constraints(pr, as)
          /\ \A c \in DOMAIN NoFails :
               /\ now.fails[c] - fails[c] \in {0, 1}
               /\ now.fails[c] - fails[c] = zero.fails[c]
               /\ now.fails[c] - fails[c] = other.fails[c] - OtherFails[c]

\* An iteration of the loop, which runs the checks on the schedule of the
\* popped node, leaves that schedule as it was, whether the checks accepted
\* or rejected and whatever they counted.
ChecksKeepSchedule ==
  (pc = "loop" /\ Len(stack) > 0)
    => nodes'[stack[Len(stack)]].pr = nodes[stack[Len(stack)]].pr

\* C28: check_constraints leaves every field of the schedule as it was
\* whether it accepts or rejects, changes only the failure counters, and
\* its result does not depend on what the counters hold.
C28_CheckIsPure == [][ChecksKeepSchedule]_vars /\ []ResultIgnoresCounters

\* The checks of the node popped last accepted a proposal and rejected
\* another, with general and city failures counted.
C28_Witness ==
  /\ pc = "loop" /\ node # NoneNode
  /\ Len(nodes[node].children) > 0
  /\ \E k \in 1..Len(proposals(nodes[node].pr)) :
       ~check_constraints(nodes[node].pr, proposals(nodes[node].pr)[k])
  /\ fails.generalFails > 0 /\ fails.cityFails > 0

\* The latest assignment of a schedule satisfies a preset: its activity is
\* keyed in PARTASSIGN or in SPECIAL_BOOKINGS with its slot as the value.
SatisfiesPreset(pr) ==
  LET a == pr.latest_assignment[1]
      s == pr.latest_assignment[2]
  IN  \/ a \in DOMAIN Layout.PARTASSIGN /\ s = Layout.PARTASSIGN[a]
      \/ a \in DOMAIN Layout.SPECIAL_BOOKINGS /\ s = Layout.SPECIAL_BOOKINGS[a]

\* C29: the opt of every child node is minus infinity when its latest
\* assignment satisfies a preset and the stored eval of its schedule
\* otherwise.
C29_OrderingKey ==
  \A i \in 2..Len(nodes) :
    nodes[i].opt = IF SatisfiesPreset(nodes[i].pr) THEN MinusInf
                   ELSE Number(nodes[i].pr.eval)

\* What holds instead of C29: the opt of a child without a preset is the
\* stored eval plus the delta of the latest assignment evaluated once more,
\* on the child's own schedule.
OptAddsDeltaAgain ==
  \A i \in 2..Len(nodes) :
    nodes[i].opt
      = IF SatisfiesPreset(nodes[i].pr) THEN MinusInf
        ELSE Number(nodes[i].pr.eval
                      + get_delta_eval(nodes[i].pr, nodes[i].pr.latest_assignment))

\* Child x of a node comes before child y in the order of the visit:
\* a child that satisfies a preset before one that does not, and among
\* children without a preset the lower stored eval first.
VisitedNoLaterThan(ns, x, y) ==
  \/ SatisfiesPreset(ns[x].pr)
  \/ ~SatisfiesPreset(ns[y].pr) /\ ns[x].pr.eval <= ns[y].pr.eval

\* An iteration that gave the popped node N children leaves a child of N
\* on top of the stack, above the nodes that were waiting, with the
\* children of N in the order of the visit from the top down.
OrderedPush ==
  (pc = "loop" /\ Len(stack) > 0 /\ pc' = "loop")
    => LET N == stack[Len(stack)]
           kids == nodes'[N].children
           below == Len(stack) - 1
       IN  Len(kids) > 0
             => /\ Len(stack') = below + Len(kids)
                /\ SubSeq(stack', 1, below) = SubSeq(stack, 1, below)
                /\ {stack'[k] : k \in below + 1..Len(stack')} = SeqToSet(kids)
                /\ \A k \in 1..Len(kids) : nodes'[kids[k]].parent = N
                /\ \A j \in below + 1..Len(stack') :
                     \A k \in below + 1..Len(stack') :
                       j < k => VisitedNoLaterThan(nodes', stack'[k], stack'[j])

\* The node about to be popped is reached only after the subtree of every
\* sibling visited before it is exhausted: no node that waits on the stack
\* descends from a sibling of the top.
SubtreesFirst ==
  Len(stack) > 0
    => LET top == stack[Len(stack)]
           siblings == {x \in 2..Len(nodes) :
                          x # top /\ nodes[x].parent = nodes[top].parent}
       IN  \A k \in 1..Len(stack) : Ancestors(stack[k]) \cap siblings = {}

\* C30: right after a node with children is processed the next node popped
\* is one of its children, one that satisfies a preset if any does and
\* otherwise one of the lowest stored eval; the siblings are visited
\* presets first and then in ascending eval, each with its whole subtree
\* before the next.
C30_ExplorationOrder == [][OrderedPush]_vars /\ []SubtreesFirst

\* What holds instead of C30: the children go on the stack in the order of
\* their opt, the lowest on top.
PushedByOpt ==
  (pc = "loop" /\ Len(stack) > 0 /\ pc' = "loop")
    => LET N == stack[Len(stack)]
           kids == nodes'[N].children
           below == Len(stack) - 1
       IN  Len(kids) > 0
             => /\ Len(stack') = below + Len(kids)
                /\ {stack'[k] : k \in below + 1..Len(stack')} = SeqToSet(kids)
                /\ \A j \in below + 1..Len(stack') :
                     \A k \in below + 1..Len(stack') :
                       j < k => ~opt_less(nodes'[stack'[j]].opt, nodes'[stack'[k]].opt)

OrderIsByOpt == [][PushedByOpt]_vars

\* search() has ended by exhausting the stack.
Exhausted == pc = "done" /\ stack = <<>>

\* The solved flag of node n is what the tree says it should be: for a
\* leaf, that its schedule is complete; for a node with children, that
\* every child is solved.
FlagIsRight(n) ==
  IF nodes[n].children = <<>>
  THEN nodes[n].sol <=> is_complete(nodes[n].pr)
  ELSE nodes[n].sol <=>
         \A k \in 1..Len(nodes[n].children) : nodes[nodes[n].children[k]].sol

FlagsAtEnd == Exhausted => \A n \in 1..Len(nodes) : FlagIsRight(n)

\* A step never clears a solved flag.
FlagsKept == \A n \in 1..Len(nodes) : nodes[n].sol => nodes'[n].sol

\* C31: when search() ends by exhausting the stack every leaf is solved
\* iff its schedule is complete and every node with children, the root
\* included, is solved iff all its children are; and a solved flag that is
\* set is never cleared.
C31_SolvedFlags == []FlagsAtEnd /\ [][FlagsKept]_vars

\* What holds instead of C31: the flags are right for every node but the
\* root, whose flag is never set, and no flag is ever cleared.
FlagsBelowRoot ==
  /\ ~nodes[1].sol
  /\ Exhausted => \A n \in 2..Len(nodes) : FlagIsRight(n)

SolvedFlagsBelowRoot == []FlagsBelowRoot /\ [][FlagsKept]_vars

\* search() has ended with every child of the root solved and the root not.
RootLeftUnsolved ==
  /\ Exhausted
  /\ Len(nodes[1].children) >= 2
  /\ \A k \in 1..Len(nodes[1].children) : nodes[nodes[1].children[k]].sol
  /\ ~nodes[1].sol

\* Minute m of the day lies in the interval [start, end) of slot s.
MinuteIn(m, s) ==
  /\ time_str_to_int(Layout.SLOT_ID_TO_OBJ[s].start_time) <= m
  /\ m < time_str_to_int(Layout.SLOT_ID_TO_OBJ[s].end_time)

\* Slots s and t share a minute.  Two intervals that share a minute share
\* the later of their two starts, so only the two starts are tried.
ShareMinute(s, t) ==
  \E m \in {time_str_to_int(Layout.SLOT_ID_TO_OBJ[s].start_time),
            time_str_to_int(Layout.SLOT_ID_TO_OBJ[t].start_time)} :
    MinuteIn(m, s) /\ MinuteIn(m, t)

\* Slot t begins at the minute slot s ends.
Touch(s, t) ==
  time_str_to_int(Layout.SLOT_ID_TO_OBJ[s].end_time)
    = time_str_to_int(Layout.SLOT_ID_TO_OBJ[t].start_time)

\* C32: in the Layout that the search starts from, for all slots s and t of
\* either kind t is in s.overlaps iff they are on one weekday and share a
\* minute; the relation is reflexive and symmetric, never links two
\* weekdays, and slots that touch end-to-start do not overlap.
C32_OverlapRelation ==
  pc = "start" =>
    \A s \in Layout.ALL_SLOT_IDS :
      LET so == Layout.SLOT_ID_TO_OBJ[s]
      IN  /\ s \in so.overlaps
          /\ so.overlaps \subseteq Layout.ALL_SLOT_IDS
          /\ \A t \in Layout.ALL_SLOT_IDS :
               LET to == Layout.SLOT_ID_TO_OBJ[t]
               IN  /\ t \in so.overlaps
                     <=> (so.weekday = to.weekday /\ ShareMinute(s, t))
                   /\ t \in so.overlaps <=> s \in to.overlaps
                   /\ t \in so.overlaps => s[2] = t[2]
                   /\ Touch(s, t) => t \notin so.overlaps

\* The Layout is loaded, and in it the Tuesday game slot 9:30-11:00
\* overlaps the Tuesday practice slots of 9:00 and 10:00 and itself, and
\* neither the practice slot of 11:00 that it touches nor the Monday slots
\* of the same hours.
C32_Witness ==
  /\ pc = "start"
  /\ Layout.SLOT_ID_TO_OBJ[<<GAME, TU, <<"9",":","3","0">>>>].overlaps
       = {<<GAME, TU, <<"9",":","3","0">>>>,
          <<PRACTICE, TU, <<"9",":","0","0">>>>,
          <<PRACTICE, TU, <<"1","0",":","0","0">>>>}
  /\ Touch(<<GAME, TU, <<"9",":","3","0">>>>, <<PRACTICE, TU, <<"1","1",":","0","0">>>>)
  /\ ShareMinute(<<GAME, TU, <<"9",":","3","0">>>>, <<PRACTICE, MO, <<"1","0",":","0","0">>>>)

\* The slots of a kind that schedule pr holds below their max.
BelowMax(pr, kind) ==
  {s \in Layout.ALL_SLOT_IDS :
     s[1] = kind /\ Cardinality(pr.assignments[s]) < slot_max(s)}

\* The vacant lists of schedule pr are the slots below their max, each
\* once.
VacantIsBelowMax(pr) ==
  /\ SeqToSet(pr.vacant_game_slots) = BelowMax(pr, GAME)
  /\ SeqToSet(pr.vacant_practice_slots) = BelowMax(pr, PRACTICE)
  /\ Len(pr.vacant_game_slots) = Cardinality(BelowMax(pr, GAME))
  /\ Len(pr.vacant_practice_slots) = Cardinality(BelowMax(pr, PRACTICE))

\* The assignment that made child schedule C from P brought its slot to
\* its max.
FilledBy(P, C) ==
  LET s == C.latest_assignment[2]
  IN  /\ Cardinality(P.assignments[s]) < slot_max(s)
      /\ Cardinality(C.assignments[s]) = slot_max(s)

\* C33: in every schedule of the tree the vacant game slots are exactly
\* the game slots below their max and the vacant practice slots exactly
\* the practice slots below their max; the assignment that brings a slot
\* to its max, a special booking included, takes the slot out of the
\* vacant list it was in, and no other assignment changes the lists.
C33_VacantSets ==
  /\ \A pr \in Schedules : VacantIsBelowMax(pr)
  /\ \A i \in 2..Len(nodes) :
       LET P == nodes[nodes[i].parent].pr
           C == nodes[i].pr
           s == C.latest_assignment[2]
       IN  IF FilledBy(P, C)
           THEN /\ s \in SeqToSet(P.vacant_game_slots) \cup SeqToSet(P.vacant_practice_slots)
                /\ C.vacant_game_slots = Remove(P.vacant_game_slots, s)
                /\ C.vacant_practice_slots = Remove(P.vacant_practice_slots, s)
           ELSE /\ C.vacant_game_slots = P.vacant_game_slots
                /\ C.vacant_practice_slots = P.vacant_practice_slots

\* A game keyed in SPECIAL_BOOKINGS brought its booked practice slot to
\* its max and the slot left the vacant practice slots, while another
\* node placed a practice without filling its slot and kept the list.
C33_Witness ==
  \E i \in 2..Len(nodes) :
    \E j \in 2..Len(nodes) :
      LET P == nodes[nodes[i].parent].pr
          C == nodes[i].pr
          a == C.latest_assignment[1]
          s == C.latest_assignment[2]
      IN  /\ a \in Layout.GAME_IDS \cap DOMAIN Layout.SPECIAL_BOOKINGS
          /\ s = Layout.SPECIAL_BOOKINGS[a] /\ s[1] = PRACTICE
          /\ FilledBy(P, C)
          /\ s \in SeqToSet(P.vacant_practice_slots)
          /\ s \notin SeqToSet(C.vacant_practice_slots)
          /\ nodes[j].pr.latest_assignment[1] \in Layout.PRACTICE_IDS
          /\ ~FilledBy(nodes[nodes[j].parent].pr, nodes[j].pr)
          /\ nodes[j].pr.vacant_practice_slots
               = nodes[nodes[j].parent].pr.vacant_practice_slots

\* slot_of and assignments of schedule pr are inverse views: a is in
\* assignments[s] iff slot_of maps a to s.
InverseViews(pr) ==
  /\ DOMAIN pr.slot_of_each_activity \subseteq Layout.ACTIVITY_IDS
  /\ \A s \in Layout.ALL_SLOT_IDS : pr.assignments[s] \subseteq Layout.ACTIVITY_IDS
  /\ \A a \in Layout.ACTIVITY_IDS :
       \A s \in Layout.ALL_SLOT_IDS :
         a \in pr.assignments[s]
           <=> (a \in DOMAIN pr.slot_of_each_activity
                  /\ pr.slot_of_each_activity[a] = s)

\* The placed activities, the remaining games and the remaining practices
\* of schedule pr partition the activities of the instance.
PartitionsActivities(pr) ==
  LET games == SeqToSet(pr.remaining_games)
      practices == SeqToSet(pr.remaining_practices)
  IN  /\ Placed(pr) \cup games \cup practices = Layout.ACTIVITY_IDS
      /\ Placed(pr) \cap games = {}
      /\ Placed(pr) \cap practices = {}
      /\ games \cap practices = {}
      /\ Len(pr.remaining_games) = Cardinality(games)
      /\ Len(pr.remaining_practices) = Cardinality(practices)

\* C34: in every schedule of the tree slot_of and assignments are inverse
\* views of one another, every placed activity is in exactly one slot and
\* in neither remaining list, and the placed activities with the two
\* remaining lists partition the activities of the instance.
C34_IndexConsistency ==
  \A pr \in Schedules :
    /\ InverseViews(pr)
    /\ \A a \in Placed(pr) : Cardinality(SlotsOf(pr, a)) = 1
    /\ PartitionsActivities(pr)

\* A schedule holds a game and a practice and has a game and a practice
\* remaining.
C34_Witness ==
  \E pr \in Schedules :
    /\ Placed(pr) \cap Layout.GAME_IDS # {}
    /\ Placed(pr) \cap Layout.PRACTICE_IDS # {}
    /\ pr.remaining_games # <<>>
    /\ pr.remaining_practices # <<>>

\* C35: no check of a proposal raises: search() never ends by an
\* exception, whatever entries the activities have in UNWANTED, PARTASSIGN,
\* PREFERENCES and PAIR and whatever slot a special booking names.
C35_NoException == pc # "raised"

\* What holds instead of C35: a check raises only on a proposal whose
\* activity has no entry in UNWANTED, and then search() ends with the
\* node popped and without children; an activity without an entry in
\* PARTASSIGN, PREFERENCES or PAIR and a game proposed into a practice
\* slot by its special booking raise nothing.
RaisesOnlyWithoutUnwanted ==
  /\ pc = "raised"
       => /\ node # NoneNode /\ nodes[node].children = <<>>
          /\ \E k \in 1..Len(proposals(nodes[node].pr)) :
               proposals(nodes[node].pr)[k][1] \notin DOMAIN Layout.UNWANTED
  /\ (pc \in {"loop", "done"} /\ node # NoneNode)
       => \A k \in 1..Len(proposals(nodes[node].pr)) :
            proposals(nodes[node].pr)[k][1] \in DOMAIN Layout.UNWANTED

\* A node was expanded without an exception with proposals for an activity
\* that has no entry in PARTASSIGN, PREFERENCES or PAIR and for a game
\* that its special booking sends into a practice slot.
NoRaiseWithoutOtherEntries ==
  /\ pc = "loop" /\ node # NoneNode
  /\ \E k \in 1..Len(proposals(nodes[node].pr)) :
       LET a == proposals(nodes[node].pr)[k][1]
       IN  a \notin DOMAIN Layout.PARTASSIGN \cup DOMAIN Layout.PREFERENCES
                      \cup DOMAIN Layout.PAIR
  /\ \E k \in 1..Len(proposals(nodes[node].pr)) :
       LET as == proposals(nodes[node].pr)[k]
       IN  as[1] \in Layout.GAME_IDS /\ as[2][1] = PRACTICE

\* The slots of the administrative meeting.
ReservedGameSlot == <<GAME, TU, <<"1","1",":","0","0">>>>

ReservedPracticeSlots ==
  {<<PRACTICE, TU, <<"1","1",":","0","0">>>>, <<PRACTICE, TU, <<"1","2",":","0","0">>>>}

\* C36: no schedule of the tree holds an activity in any of the three
\* slots reserved for the administrative meeting, whatever capacity the
\* input gave them.
C36_AdminReservation ==
  \A pr \in Schedules :
    \A s \in {ReservedGameSlot} \cup ReservedPracticeSlots : pr.assignments[s] = {}

\* What holds instead of C36: the reserved game slot has gamemax 0 and
\* holds nothing; the two reserved practice slots gain a gamemax of 0, which
\* no check reads, and are filled up to their practicemax like any other
\* practice slot.
OnlyGameSlotReserved ==
  /\ Layout.SLOT_ID_TO_OBJ[ReservedGameSlot].gamemax = 0
  /\ Layout.SLOT_ID_TO_OBJ[ReservedGameSlot].gamemin = 0
  /\ \A pr \in Schedules : pr.assignments[ReservedGameSlot] = {}
  /\ \A s \in ReservedPracticeSlots :
       /\ Layout.SLOT_ID_TO_OBJ[s].gamemax = 0
       /\ \A pr \in Schedules :
            Cardinality(pr.assignments[s]) <= Layout.SLOT_ID_TO_OBJ[s].practicemax

\* A schedule holds a practice in a reserved practice slot to which the
\* input gave a place.
PracticeInReservedSlot ==
  \E pr \in Schedules :
    \E s \in ReservedPracticeSlots :
      /\ Layout.SLOT_ID_TO_OBJ[s].practicemax > 0
      /\ pr.assignments[s] \cap Layout.PRACTICE_IDS # {}

\* The evals of the complete schedules that can be reached from schedule
\* pr by assignments that each pass the hard-constraint check, every order
\* of the assignments included.
RECURSIVE CompleteEvals(_)
CompleteEvals(pr) ==
  IF is_complete(pr) THEN {pr.eval}
  ELSE UNION {CompleteEvals(AssignedInPlace(pr, as)) : as \in PassingProposals(pr)}

\* The least of a non-empty set of integers.
Least(S) == CHOOSE x \in S : \A y \in S : x <= y

\* search() returned the best of the complete schedules that can be
\* reached from the empty one, or None when there is none.
ReturnsOptimum ==
  LET evals == CompleteEvals(Schedule)
  IN  IF evals = {} THEN result = NoneNode
      ELSE /\ result # NoneNode
           /\ is_complete(nodes[result].pr)
           /\ nodes[result].pr.eval = Least(evals)

\* C37: when search() ends by emptying the stack the eval of the returned
\* best is the minimum eval over all complete schedules that can be
\* reached from the empty schedule by assignments that each pass the
\* hard-constraint check.
C37_ExhaustiveOptimum == Exhausted => ReturnsOptimum

\* What holds instead of C37: the returned best is the optimum for every
\* instance that has an activity; for the instance without activities the
\* empty schedule is complete and None is returned.
OptimumUnlessEmpty ==
  Exhausted =>
    IF Layout.ACTIVITY_IDS # {} THEN ReturnsOptimum
    ELSE result = NoneNode /\ CompleteEvals(Schedule) = {0}

\* search() has ended on an instance with activities and returned a
\* schedule that is better than the first complete schedule it found and
\* not the worst.
OptimumFoundLate ==
  /\ Exhausted /\ result # NoneNode /\ Len(best_log) >= 2
  /\ nodes[result].pr.eval < nodes[best_log[1]].pr.eval
  /\ \E e \in CompleteEvals(Schedule) : e > nodes[best_log[1]].pr.eval

\* C38: any two schedules of the tree with the same assignments have the
\* same eval, whatever the order in which their activities were placed.
C38_OrderIndependence ==
  \A i \in 1..Len(nodes) :
    \A j \in 1..Len(nodes) :
      nodes[i].pr.assignments = nodes[j].pr.assignments
        => nodes[i].pr.eval = nodes[j].pr.eval

\* Nodes i and j hold the same assignments, placed in different orders, of
\* three activities or with two activities in different slots, and their
\* eval is not 0.
SameByOtherOrder(i, j) ==
  /\ nodes[i].pr.assignments = nodes[j].pr.assignments
  /\ PlacementOrder(i) # PlacementOrder(j)
  /\ nodes[i].pr.eval # 0
  /\ nodes[i].pr.eval = nodes[j].pr.eval

\* The tree holds such nodes where the pairs are weighted and two partners
\* are in different slots.
C38_Witness ==
  \E i \in 2..Len(nodes) :
    \E j \in 2..Len(nodes) :
      /\ SameByOtherOrder(i, j)
      /\ Layout.W_PAIR * Layout.PEN_NOTPAIRED > 0
      /\ \E a \in DOMAIN Layout.PAIR :
           \E b \in Layout.PAIR[a] :
             /\ {a, b} \subseteq Placed(nodes[i].pr)
             /\ SlotsOf(nodes[i].pr, a) # SlotsOf(nodes[i].pr, b)

\* The tree holds such nodes where the minimums are weighted.
OrdersWithMinimums ==
  \E i \in 2..Len(nodes) :
    \E j \in 2..Len(nodes) :
      SameByOtherOrder(i, j) /\ Layout.W_MINFILLED > 0

\* The tree holds such nodes where the sections are weighted.
OrdersWithSections ==
  \E i \in 2..Len(nodes) :
    \E j \in 2..Len(nodes) :
      SameByOtherOrder(i, j) /\ Layout.W_SECDIFF > 0

\* Every node is on the stack at most once, a node on the stack has no
\* children, the parent of a node on the stack is off it, and a run that
\* ended by exhaustion has left no node on the stack.
StackIsSound ==
  /\ \A k \in 1..Len(stack) : stack[k] \in 1..Len(nodes)
  /\ \A j \in 1..Len(stack) : \A k \in 1..Len(stack) : stack[j] = stack[k] => j = k
  /\ \A k \in 1..Len(stack) : nodes[stack[k]].children = <<>>
  /\ \A k \in 1..Len(stack) : nodes[stack[k]].parent \notin SeqToSet(stack)
  /\ \A n \in 2..Len(nodes) : n \in SeqToSet(nodes[nodes[n].parent].children)
  /\ (pc = "done" /\ detect_solvable) => stack = <<>>

\* One iteration pops the top of the stack and no other node, pushes the
\* nodes it has just made, each once, and nothing else; a node that is off
\* the stack stays off it, and the children of a node that has some are
\* never changed.
OnePopOnePush ==
  (pc = "loop" /\ Len(stack) > 0)
    => LET top == stack[Len(stack)]
           fresh == Len(nodes) + 1..Len(nodes')
       IN  /\ node' = top
           /\ top \notin SeqToSet(stack')
           /\ SeqToSet(stack') = (SeqToSet(stack) \ {top}) \cup fresh
           /\ Len(stack') = Len(stack) - 1 + Cardinality(fresh)
           /\ SeqToSet(nodes'[top].children) = fresh
           /\ \A n \in 1..Len(nodes) :
                /\ n \notin SeqToSet(stack) => n \notin SeqToSet(stack')
                /\ n # top => nodes'[n].children = nodes[n].children

\* A step outside the loop's iterations leaves the stack and the tree.
StackOwnedByLoop ==
  ~(pc = "loop" /\ Len(stack) > 0) => (stack' = stack /\ nodes' = nodes)

\* C39: at every step every node on the stack is unexpanded and appears on
\* it once; each node is pushed once, popped once and expanded once, at its
\* pop; and after a run that ends by exhaustion the stack is empty.
C39_StackDiscipline ==
  []StackIsSound /\ [][OnePopOnePush /\ StackOwnedByLoop]_vars

\* The run has ended by exhaustion with the stack empty after nodes at two
\* levels below the root were pushed and popped.
C39_Witness ==
  /\ pc = "done" /\ detect_solvable /\ stack = <<>>
  /\ \E n \in 2..Len(nodes) : Len(nodes[n].children) >= 2

====
